---- MODULE Spec2Model ----
(***************************************************************************)
(* DIAP payment channel program                                            *)
(* (solana-contracts/programs/diap-payment-channel/src/lib.rs).            *)
(*                                                                         *)
(* One registry account (PaymentChannelProgram) per token mint, one        *)
(* PaymentChannel account and one vault token account per channel id, the  *)
(* token accounts of the users, and the cluster clock.  Every instruction  *)
(* is one action: a Solana transaction either commits all of its account   *)
(* writes and token transfers or, when the handler or an account           *)
(* constraint returns an error, none of them.  The accounts an instruction *)
(* works on are chosen by its caller and are arguments of the action; the  *)
(* constraints of the Accounts structs decide which of them are accepted.  *)
(*                                                                         *)
(* Spec names -> source names: balance_a/b = balance1/2, version = nonce,  *)
(* dispute_deadline = challenge_deadline, participant_a/b =                *)
(* participant1/2, fee_rate_bps = channel_fee_rate.  The status of the     *)
(* spec is derived (see Status): the source keeps is_active and            *)
(* challenge_deadline only.                                                *)
(***************************************************************************)
EXTENDS Integers, FiniteSets, Sequences, TLC

(* ------------------------------ bounds --------------------------------- *)

\* largest nonce a caller submits
MaxNonce == 2

\* the clock stops advancing here
MaxTime == 172800

\* tokens the funded users hold at the start
InitialTokens == 2000

(* ------------------------- program constants --------------------------- *)

\* lib.rs:104  challenge_deadline = now + (24 * 60 * 60)
CHALLENGE_PERIOD == 24 * 60 * 60

\* lib.rs:232  require!(rate <= 100)
MAX_FEE_RATE == 100

\* lib.rs:172  checked_div(10000)
BPS_DENOMINATOR == 10000

(* ------------------------------- u64 ----------------------------------- *)

\* u64 amounts and nonces (lib.rs:413-416).  TLC's integers are 32 bits
\* wide, so a u64 is written as the sequence of its digits in base 10000,
\* most significant first and without leading zeros: 0 is <<0>>, 1000 is
\* <<1000>>, 617250 is <<61, 7250>>, and 2^64 - 1 = 18446744073709551615 is
\* <<1844, 6744, 737, 955, 1615>>.  The operators below are the arithmetic of
\* the naturals on that notation; the checked_ operators bound it by U64_MAX.
Base == 10000

U64_MAX == <<1844, 6744, 737, 955, 1615>>

\* Option::None of a checked operation, and the panic of an unchecked one
None == <<-1>>

RECURSIVE Strip(_)
\* d without its leading zeros
Strip(d) == IF Len(d) > 1 /\ d[1] = 0 THEN Strip(Tail(d)) ELSE d

\* the u64 of a TLC integer x >= 0 (`as u64`)
N(x) == Strip(<<x \div (Base * Base), (x \div Base) % Base, x % Base>>)

\* d with zeros in front, n digits long
Pad(d, n) == [i \in 1 .. n |-> IF i <= n - Len(d) THEN 0 ELSE d[i - (n - Len(d))]]

Longest(a, b) == IF Len(a) >= Len(b) THEN Len(a) ELSE Len(b)

\* a < b
Lt(a, b) ==
    IF Len(a) # Len(b) THEN Len(a) < Len(b)
    ELSE \E i \in 1 .. Len(a) : a[i] < b[i] /\ \A j \in 1 .. i - 1 : a[j] = b[j]

\* a <= b
Le(a, b) == ~Lt(b, a)

RECURSIVE PlusDigits(_, _, _, _)
\* the digits 1 .. i of a + b + carry, after the carry out of them
PlusDigits(a, b, i, carry) ==
    IF i = 0 THEN <<carry>>
    ELSE LET s == a[i] + b[i] + carry
         IN Append(PlusDigits(a, b, i - 1, s \div Base), s % Base)

\* a + b
Plus(a, b) ==
    IF Len(a) = 1 /\ Len(b) = 1
    THEN (IF a[1] + b[1] < Base THEN <<a[1] + b[1]>> ELSE <<1, a[1] + b[1] - Base>>)
    ELSE LET n == Longest(a, b)
         IN Strip(PlusDigits(Pad(a, n), Pad(b, n), n, 0))

RECURSIVE MinusDigits(_, _, _, _)
\* the digits 1 .. i of a - b - borrow
MinusDigits(a, b, i, borrow) ==
    IF i = 0 THEN <<>>
    ELSE LET s == a[i] - b[i] - borrow
         IN Append(MinusDigits(a, b, i - 1, IF s < 0 THEN 1 ELSE 0),
                   IF s < 0 THEN s + Base ELSE s)

\* a - b, for b <= a
Minus(a, b) ==
    IF Len(a) = 1 /\ Len(b) = 1 THEN <<a[1] - b[1]>>
    ELSE LET n == Longest(a, b)
         IN Strip(MinusDigits(Pad(a, n), Pad(b, n), n, 0))

RECURSIVE TimesDigit(_, _, _, _)
\* the digits 1 .. i of a * k + carry, for one digit k, after the carry out
TimesDigit(a, k, i, carry) ==
    IF i = 0 THEN <<carry>>
    ELSE LET s == a[i] * k + carry
         IN Append(TimesDigit(a, k, i - 1, s \div Base), s % Base)

RECURSIVE TimesDigits(_, _, _)
\* a times the number of the digits 1 .. j of b
TimesDigits(a, b, j) ==
    IF j = 0 THEN <<0>>
    ELSE Plus(Strip(Append(TimesDigits(a, b, j - 1), 0)),
              Strip(TimesDigit(a, b[j], Len(a), 0)))

\* a * b
Times(a, b) ==
    IF Len(a) = 1 /\ Len(b) = 1 THEN N(a[1] * b[1])
    ELSE TimesDigits(a, b, Len(b))

RECURSIVE QuotDigit(_, _, _, _)
\* the largest q in lo .. hi with b * q <= a
QuotDigit(a, b, lo, hi) ==
    IF lo = hi THEN lo
    ELSE LET mid == (lo + hi + 1) \div 2
         IN IF Le(Times(b, <<mid>>), a) THEN QuotDigit(a, b, mid, hi)
            ELSE QuotDigit(a, b, lo, mid - 1)

RECURSIVE QuotDigits(_, _, _)
\* long division of the digits 1 .. i of a by b: the quotient q and the
\* remainder r
QuotDigits(a, b, i) ==
    IF i = 0 THEN [q |-> <<>>, r |-> <<0>>]
    ELSE LET p == QuotDigits(a, b, i - 1)
             cur == Strip(Append(p.r, a[i]))
             d == QuotDigit(cur, b, 0, Base - 1)
         IN [q |-> Append(p.q, d), r |-> Minus(cur, Times(b, <<d>>))]

RECURSIVE ShortQuotDigits(_, _, _)
\* long division of the digits 1 .. i of a by the TLC integer k <= 139999
ShortQuotDigits(a, k, i) ==
    IF i = 0 THEN [q |-> <<>>, r |-> 0]
    ELSE LET p == ShortQuotDigits(a, k, i - 1)
             cur == p.r * Base + a[i]
         IN [q |-> Append(p.q, cur \div k), r |-> cur % k]

\* a \div b, for b # 0
Quot(a, b) ==
    IF Len(b) = 1 THEN Strip(ShortQuotDigits(a, b[1], Len(a)).q)
    ELSE IF Len(b) = 2 /\ b[1] <= 13
    THEN Strip(ShortQuotDigits(a, b[1] * Base + b[2], Len(a)).q)
    ELSE Strip(QuotDigits(a, b, Len(a)).q)

(* ------------------------------ inputs --------------------------------- *)

Users == {"A", "B", "C"}

\* the users that hold tokens at the start
Funded == {"A"}

\* the user that creates the registries and owns them
Authorities == {"B"}

\* the counterparties named in open_payment_channel
Counterparties == {"A", "B"}

\* the token mints: the users' tokens are of mint "M"; "X" is a second mint,
\* of which nobody holds a token
Mints == {"M", "X"}

FundedMints == {"M"}

\* "" is the empty channel id that open_payment_channel rejects
ChannelIds == {"", "c1", "c2"}

\* the channel ids the transactions of Spec name
OpenIds == {"", "c1"}

CloseIds == {"c1"}

Deposits == {N(0), N(1000)}

\* the deposits and mints named in open_payment_channel, <<deposit,
\* token_mint>>
Openings == {<<N(0), "M">>, <<N(1000), "M">>, <<N(1000), "X">>}

\* the proposed splits <<balance1, balance2>>: the whole deposit, the deposit
\* less the 1% fee, one side zero, all to participant1,
\* more than the deposit, and a sum that overflows u64
Splits == {<<N(400), N(600)>>, <<N(600), N(390)>>, <<N(0), N(600)>>,
           <<N(1000), N(0)>>, <<N(600), N(600)>>,
           <<U64_MAX, N(400)>>}

Nonces == {N(n) : n \in 0 .. MaxNonce}

FeeRates == {0, 100, 101}

\* the registries created in Spec, <<token_mint, channel_fee_rate>>
Registrations == {<<"M", r>> : r \in FeeRates}

\* the rate changes submitted in Spec, <<token_mint, rate>>
RateChanges == {<<"M", r>> : r \in FeeRates} \cup {<<"X", 0>>}

TickSteps == {43200}

\* the token accounts a caller can hand to an instruction,
\* <<kind, authority, mint>>: "own" is the account a user created for
\* itself, "pda" the program's account at the seeds ["token-account", user,
\* token_mint] (lib.rs:290)
AccountKinds == {"own", "pda"}

TokenAccounts == AccountKinds \X Users \X Mints

\* what the callers of finalize_channel_close in Spec hand in,
\* <<token_mint of the registry, participant1_token_account,
\* participant2_token_account>>, for channels of mint "M" with the
\* participants A and B: the registry of "M" with their own accounts, and
\* with A's "token-account" account in place of its own
Settlements ==
    {<<"M", <<"own", "A", "M">>, <<"own", "B", "M">>>>,
     <<"M", <<"pda", "A", "M">>, <<"own", "B", "M">>>>}

\* the builds of the program: with overflow checks (FALSE) and with wrapping
\* arithmetic (TRUE)
Builds == BOOLEAN

(* ------------------------------- state --------------------------------- *)

VARIABLES
    payment_channel,  \* token mint -> PaymentChannelProgram account (registry)
    channel,          \* channel id -> PaymentChannel account
    vault,            \* channel id -> amount of the channel_vault token account
    vault_mint,       \* channel id -> mint of the channel_vault token account
    tokens,           \* user -> mint -> amount of the token account the user
                      \* created for itself
    token_account,    \* user -> mint -> the program's token account at the
                      \* seeds ["token-account", user, token_mint]
    now,              \* Clock::get().unix_timestamp
    paid,             \* channel id -> <<paid to participant1, paid to participant2>>
    finalized,        \* channel id -> number of successful finalize_channel_close
    initiated_at,     \* channel id -> clock of the last successful initiate_channel_close
    proposals,        \* channel id -> the accepted splits <<balance1, balance2, nonce>>:
                      \* the one of the highest nonce and the most recent one
    last              \* the last transaction: instruction, result and emitted event

vars == <<payment_channel, channel, vault, vault_mint, tokens, token_account, now,
          paid, finalized, initiated_at, proposals, last>>

\* an account that has not been created: all bytes zero
NoChannel ==
    [exists |-> FALSE, participant1 |-> "", participant2 |-> "",
     balance1 |-> N(0), balance2 |-> N(0), total_deposited |-> N(0), nonce |-> N(0),
     is_active |-> FALSE, last_update |-> 0, challenge_deadline |-> 0,
     channel_id |-> "", is_initialized |-> FALSE]

NoRegistry ==
    [exists |-> FALSE, authority |-> "", token_mint |-> "", channel_fee_rate |-> 0]

\* Open / Closing / Closed of the spec, from is_active and challenge_deadline
Status(ch) ==
    IF ~ch.exists THEN "None"
    ELSE IF ~ch.is_active THEN "Closed"
    ELSE IF ch.challenge_deadline > 0 THEN "Closing"
    ELSE "Open"

\* the record of a transaction; a1, a2, n, p2 are the fields of the event the
\* instruction emits (for finalize_channel_close, which emits none: the two
\* amounts it transfers and the fee it computed); a failed transaction
\* emits none
Tx(op, cid, signer, res, a1, a2, n, p2) ==
    [op |-> op, channel_id |-> cid, signer |-> signer, res |-> res,
     a1 |-> a1, a2 |-> a2, n |-> n, p2 |-> p2, mint |-> ""]

\* the record of a transaction that was given the registry of token_mint
OnMint(token_mint, tx) == [tx EXCEPT !.mint = token_mint]

\* a failed transaction leaves its error code only
Failed(op, cid, res) == Tx(op, cid, "", res, N(0), N(0), N(0), "")

\* no split has been accepted yet
NoProposals ==
    [highest |-> <<N(0), N(0), N(0)>>, latest |-> <<N(0), N(0), N(0)>>]

\* the splits accepted so far and the split <<balance1, balance2>> accepted
\* now at `nonce`
Accept(pr, balance1, balance2, nonce) ==
    [highest |-> IF Lt(pr.highest[3], nonce) THEN <<balance1, balance2, nonce>>
                 ELSE pr.highest,
     latest |-> <<balance1, balance2, nonce>>]

\* the users in `held` holding InitialTokens of each funded mint, everyone
\* else and every other mint none
Holding(held) ==
    [u \in Users |-> [m \in Mints |->
        IF u \in held /\ m \in FundedMints THEN N(InitialTokens) ELSE N(0)]]

\* a "token-account" account that has not been created
NoTokenAccount == [exists |-> FALSE, amount |-> N(0)]

\* the "token-account" account of a user who was given `amount` in it
TokenAccountOf(amount) == [exists |-> Lt(N(0), amount), amount |-> amount]

\* no "token-account" account exists
NoTokenAccounts == [u \in Users |-> [m \in Mints |-> NoTokenAccount]]

\* a new deployment: no account of the program exists, and the funded users
\* hold their tokens in token accounts they created for themselves
FreshLedger ==
    /\ tokens = Holding(Funded)
    /\ token_account = NoTokenAccounts

\* a ledger that was started with the funded users' "token-account" accounts
\* of the program among its accounts, holding their tokens.  No instruction
\* creates such an account other than open_payment_channel (lib.rs:285-293),
\* which creates it empty, and none can fund it before the transfer at
\* lib.rs:64 debits it: the ledger has to carry it from its start.
FundedLedger ==
    /\ tokens = Holding({})
    /\ token_account = [u \in Users |-> [m \in Mints |->
          TokenAccountOf(Holding(Funded)[u][m])]]

\* no channel has been opened
NoChannels ==
    /\ channel = [c \in ChannelIds |-> NoChannel]
    /\ vault = [c \in ChannelIds |-> N(0)]
    /\ vault_mint = [c \in ChannelIds |-> ""]
    /\ paid = [c \in ChannelIds |-> <<N(0), N(0)>>]
    /\ finalized = [c \in ChannelIds |-> 0]
    /\ initiated_at = [c \in ChannelIds |-> 0]
    /\ proposals = [c \in ChannelIds |-> NoProposals]

\* the registry of mint "M" created by B at the rate r, and no other
OneRegistry(r) ==
    [m \in Mints |-> IF m = "M" THEN [exists |-> TRUE, authority |-> "B",
                                      token_mint |-> "M", channel_fee_rate |-> r]
                     ELSE NoRegistry]

\* the registries of both mints created by B, at the rates r and x
BothRegistries(r, x) ==
    [m \in Mints |-> [exists |-> TRUE, authority |-> "B", token_mint |-> m,
                      channel_fee_rate |-> IF m = "M" THEN r ELSE x]]

\* the "token-account" accounts when the users in `held` have one of mint
\* "M", holding `amount`
TokenAccountsOf(held, amount) ==
    [u \in Users |-> [m \in Mints |->
        IF u \in held /\ m = "M" THEN [exists |-> TRUE, amount |-> amount]
        ELSE NoTokenAccount]]

\* the vaults' mints when the channels in `ids` were opened with mint "M"
VaultMintsOf(ids) == [c \in ChannelIds |-> IF c \in ids THEN "M" ELSE ""]

\* the own token accounts of the two participants of a channel, of the mint
\* of its vault
OwnAccounts(channel_id) ==
    <<<<"own", channel[channel_id].participant1, vault_mint[channel_id]>>,
      <<"own", channel[channel_id].participant2, vault_mint[channel_id]>>>>

Init ==
    /\ payment_channel = [m \in Mints |-> NoRegistry]
    /\ NoChannels
    /\ FreshLedger \/ FundedLedger
    /\ now = 0
    /\ last = Failed("none", "", "Ok")

\* the token account <<kind, authority, mint>> as an instruction receives it
TokenAccountAt(account) ==
    IF account \notin TokenAccounts
    THEN [exists |-> FALSE, mint |-> "", authority |-> "", amount |-> N(0)]
    ELSE IF account[1] = "own"
    THEN [exists |-> TRUE, mint |-> account[3], authority |-> account[2],
          amount |-> tokens[account[2]][account[3]]]
    ELSE [exists |-> token_account[account[2]][account[3]].exists,
          mint |-> account[3], authority |-> account[2],
          amount |-> token_account[account[2]][account[3]].amount]

\* the channel_vault token account of a channel id
VaultAt(channel_id) == [mint |-> vault_mint[channel_id], amount |-> vault[channel_id]]

\* the registry at the seeds ["payment-channel", token_mint] as an
\* instruction receives it
RegistryAt(token_mint) ==
    IF token_mint \in Mints THEN payment_channel[token_mint] ELSE NoRegistry

(* ---------------------------- arithmetic ------------------------------- *)

\* u64::checked_add
checked_add(a, b) == IF Lt(U64_MAX, Plus(a, b)) THEN None ELSE Plus(a, b)

\* u64::checked_mul
checked_mul(a, b) == IF Lt(U64_MAX, Times(a, b)) THEN None ELSE Times(a, b)

\* u64::checked_div
checked_div(a, b) == IF b = <<0>> THEN None ELSE Quot(a, b)

(* ----------------------------- initialize ------------------------------ *)

\* Initialize accounts: `init` of the registry PDA of token_mint fails when
\* it exists
initialize_check(registry, authority, channel_fee_rate) ==
    IF registry.exists THEN "AccountAlreadyInUse" ELSE "Ok"

\* lib.rs:19-23
initialize_write(authority, token_mint, channel_fee_rate) ==
    [exists |-> TRUE, authority |-> authority, token_mint |-> token_mint,
     channel_fee_rate |-> channel_fee_rate]

initialize(authority, token_mint, channel_fee_rate) ==
    LET res == initialize_check(payment_channel[token_mint], authority,
                                channel_fee_rate) IN
    /\ IF res = "Ok"
       THEN /\ payment_channel' = [payment_channel EXCEPT ![token_mint] =
                    initialize_write(authority, token_mint, channel_fee_rate)]
            /\ last' = OnMint(token_mint,
                              Tx("initialize", "", authority, "Ok", channel_fee_rate,
                                 N(0), N(0), ""))
       ELSE /\ UNCHANGED payment_channel
            /\ last' = Failed("initialize", "", res)
    /\ UNCHANGED <<channel, vault, vault_mint, tokens, token_account, now, paid,
                   finalized, initiated_at, proposals>>

(* ------------------------ open_payment_channel ------------------------- *)

\* open_payment_channel_check with init_if_needed on the channel account and
\* without require!(!channel.is_initialized)
open_payment_channel_check_reinit(channel_id, participant1, participant2, deposit, token_mint) ==
    IF ~payment_channel[token_mint].exists THEN "AccountNotInitialized"
    ELSE IF ~Lt(N(0), deposit) THEN "DepositMustBeGreaterThanZero"
    ELSE IF ~(channel_id # "") THEN "ChannelIDRequired"
    ELSE IF ~(participant2 # participant1) THEN "CannotOpenChannelWithSelf"
    ELSE IF Lt(token_account[participant1][token_mint].amount, deposit)
         THEN "TokenInsufficientFunds"
    ELSE "Ok"

\* open_payment_channel_check refusing a channel while another account exists
open_payment_channel_check_single(channel_id, participant1, participant2, deposit, token_mint) ==
    IF ~payment_channel[token_mint].exists THEN "AccountNotInitialized"
    ELSE IF \E c \in ChannelIds : channel[c].exists THEN "AccountAlreadyInUse"
    ELSE IF ~Lt(N(0), deposit) THEN "DepositMustBeGreaterThanZero"
    ELSE IF ~(channel_id # "") THEN "ChannelIDRequired"
    ELSE IF channel[channel_id].is_initialized THEN "ChannelAlreadyExists"
    ELSE IF ~(participant2 # participant1) THEN "CannotOpenChannelWithSelf"
    ELSE IF Lt(token_account[participant1][token_mint].amount, deposit)
         THEN "TokenInsufficientFunds"
    ELSE "Ok"

\* open_payment_channel_check without require!(participant2 != participant1)
open_payment_channel_check_self(channel_id, participant1, participant2, deposit, token_mint) ==
    IF ~payment_channel[token_mint].exists THEN "AccountNotInitialized"
    ELSE IF channel[channel_id].exists THEN "AccountAlreadyInUse"
    ELSE IF ~Lt(N(0), deposit) THEN "DepositMustBeGreaterThanZero"
    ELSE IF ~(channel_id # "") THEN "ChannelIDRequired"
    ELSE IF channel[channel_id].is_initialized THEN "ChannelAlreadyExists"
    ELSE IF Lt(token_account[participant1][token_mint].amount, deposit)
         THEN "TokenInsufficientFunds"
    ELSE "Ok"

\* OpenPaymentChannel accounts (lib.rs:266-313), then the handler's
\* require!s (lib.rs:34-37), then the deposit transfer (lib.rs:64).  The
\* registry is the one at the seeds of token_mint (lib.rs:278-283); it is
\* loaded before the init of the channel account (lib.rs:268-276) runs, as
\* every account without init is, so a missing registry is reported before
\* a channel account that is already in use.  The
\* source of the transfer is the account at the seeds ["token-account",
\* participant1, token_mint] (lib.rs:285-293): when it does not exist,
\* init_if_needed creates it empty, the transfer of deposit > 0 fails and the
\* transaction, the creation included, is rolled back.
open_payment_channel_check(channel_id, participant1, participant2, deposit, token_mint) ==
    IF ~payment_channel[token_mint].exists THEN "AccountNotInitialized"
    ELSE IF channel[channel_id].exists THEN "AccountAlreadyInUse"
    ELSE IF ~Lt(N(0), deposit) THEN "DepositMustBeGreaterThanZero"
    ELSE IF ~(channel_id # "") THEN "ChannelIDRequired"
    ELSE IF channel[channel_id].is_initialized THEN "ChannelAlreadyExists"
    ELSE IF ~(participant2 # participant1) THEN "CannotOpenChannelWithSelf"
    ELSE IF Lt(token_account[participant1][token_mint].amount, deposit)
         THEN "TokenInsufficientFunds"
    ELSE "Ok"
\* open_payment_channel_init recording one token more than is transferred
open_payment_channel_init_overstated(channel_id, participant1, participant2, deposit, t) ==
    [exists |-> TRUE,
     participant1 |-> participant1,
     participant2 |-> participant2,
     balance1 |-> deposit,
     balance2 |-> N(0),
     total_deposited |-> Plus(deposit, N(1)),
     nonce |-> N(0),
     is_active |-> TRUE,
     last_update |-> t,
     challenge_deadline |-> 0,
     channel_id |-> channel_id,
     is_initialized |-> TRUE]

\* open_payment_channel_init crediting the deposit to participant2
open_payment_channel_init_swapped(channel_id, participant1, participant2, deposit, t) ==
    [exists |-> TRUE,
     participant1 |-> participant1,
     participant2 |-> participant2,
     balance1 |-> N(0),
     balance2 |-> deposit,
     total_deposited |-> deposit,
     nonce |-> N(0),
     is_active |-> TRUE,
     last_update |-> t,
     challenge_deadline |-> 0,
     channel_id |-> channel_id,
     is_initialized |-> TRUE]

\* lib.rs:42-54
open_payment_channel_init(channel_id, participant1, participant2, deposit, t) ==
    [exists |-> TRUE,
     participant1 |-> participant1,
     participant2 |-> participant2,
     balance1 |-> deposit,
     balance2 |-> N(0),
     total_deposited |-> deposit,
     nonce |-> N(0),
     is_active |-> TRUE,
     last_update |-> t,
     challenge_deadline |-> 0,
     channel_id |-> channel_id,
     is_initialized |-> TRUE]

open_payment_channel(channel_id, participant1, participant2, deposit, token_mint) ==
    LET res == open_payment_channel_check(channel_id, participant1, participant2,
                                          deposit, token_mint) IN
    /\ IF res = "Ok"
       THEN /\ channel' = [channel EXCEPT ![channel_id] =
                    open_payment_channel_init(channel_id, participant1, participant2,
                                              deposit, now)]
            /\ token_account' = [token_account EXCEPT
                    ![participant1][token_mint] =
                        [exists |-> TRUE, amount |-> Minus(@.amount, deposit)]]
            /\ vault' = [vault EXCEPT ![channel_id] = Plus(@, deposit)]
            /\ vault_mint' = [vault_mint EXCEPT ![channel_id] = token_mint]
            /\ last' = OnMint(token_mint,
                              Tx("open_payment_channel", channel_id, participant1, "Ok",
                                 deposit, N(0), N(0), participant2))
       ELSE /\ UNCHANGED <<channel, token_account, vault, vault_mint>>
            /\ last' = Failed("open_payment_channel", channel_id, res)
    /\ UNCHANGED <<payment_channel, tokens, now, paid, finalized, initiated_at,
                   proposals>>

(* ----------------------- initiate_channel_close ------------------------ *)

\* initiate_channel_close_check without require!(total_final <= total_deposited)
initiate_channel_close_check_no_distribution(ch, signer, final_balance1, final_balance2, nonce) ==
    IF ~ch.exists THEN "AccountNotInitialized"
    ELSE IF ~ch.is_initialized THEN "ChannelNotFound"
    ELSE IF ~ch.is_active THEN "ChannelNotActive"
    ELSE IF ~(signer = ch.participant1 \/ signer = ch.participant2)
         THEN "NotChannelParticipant"
    ELSE IF ~Lt(ch.nonce, nonce) THEN "NonceMustBeGreater"
    ELSE IF checked_add(final_balance1, final_balance2) = None THEN "MathOverflow"
    ELSE "Ok"

\* initiate_channel_close_check without require!(channel.is_active)
initiate_channel_close_check_no_active(ch, signer, final_balance1, final_balance2, nonce) ==
    IF ~ch.exists THEN "AccountNotInitialized"
    ELSE IF ~ch.is_initialized THEN "ChannelNotFound"
    ELSE IF ~(signer = ch.participant1 \/ signer = ch.participant2)
         THEN "NotChannelParticipant"
    ELSE IF ~Lt(ch.nonce, nonce) THEN "NonceMustBeGreater"
    ELSE IF checked_add(final_balance1, final_balance2) = None THEN "MathOverflow"
    ELSE IF ~Le(checked_add(final_balance1, final_balance2), ch.total_deposited)
         THEN "InvalidBalanceDistribution"
    ELSE "Ok"

\* initiate_channel_close_check refusing a closing channel whose window has
\* elapsed
initiate_channel_close_check_in_window(ch, signer, final_balance1, final_balance2, nonce) ==
    IF ~ch.exists THEN "AccountNotInitialized"
    ELSE IF ~ch.is_initialized THEN "ChannelNotFound"
    ELSE IF ~ch.is_active THEN "ChannelNotActive"
    ELSE IF ch.challenge_deadline > 0 /\ ~(now < ch.challenge_deadline)
         THEN "ChallengePeriodExpired"
    ELSE IF ~(signer = ch.participant1 \/ signer = ch.participant2)
         THEN "NotChannelParticipant"
    ELSE IF ~Lt(ch.nonce, nonce) THEN "NonceMustBeGreater"
    ELSE IF checked_add(final_balance1, final_balance2) = None THEN "MathOverflow"
    ELSE IF ~Le(checked_add(final_balance1, final_balance2), ch.total_deposited)
         THEN "InvalidBalanceDistribution"
    ELSE "Ok"

\* initiate_channel_close_check accepting participant1 only
initiate_channel_close_check_depositor(ch, signer, final_balance1, final_balance2, nonce) ==
    IF ~ch.exists THEN "AccountNotInitialized"
    ELSE IF ~ch.is_initialized THEN "ChannelNotFound"
    ELSE IF ~ch.is_active THEN "ChannelNotActive"
    ELSE IF ~(signer = ch.participant1) THEN "NotChannelParticipant"
    ELSE IF ~Lt(ch.nonce, nonce) THEN "NonceMustBeGreater"
    ELSE IF checked_add(final_balance1, final_balance2) = None THEN "MathOverflow"
    ELSE IF ~Le(checked_add(final_balance1, final_balance2), ch.total_deposited)
         THEN "InvalidBalanceDistribution"
    ELSE "Ok"

\* initiate_channel_close_check refusing a channel that is already closing
initiate_channel_close_check_once(ch, signer, final_balance1, final_balance2, nonce) ==
    IF ~ch.exists THEN "AccountNotInitialized"
    ELSE IF ~ch.is_initialized THEN "ChannelNotFound"
    ELSE IF ~ch.is_active THEN "ChannelNotActive"
    ELSE IF ch.challenge_deadline > 0 THEN "ChannelNotActive"
    ELSE IF ~(signer = ch.participant1 \/ signer = ch.participant2)
         THEN "NotChannelParticipant"
    ELSE IF ~Lt(ch.nonce, nonce) THEN "NonceMustBeGreater"
    ELSE IF checked_add(final_balance1, final_balance2) = None THEN "MathOverflow"
    ELSE IF ~Le(checked_add(final_balance1, final_balance2), ch.total_deposited)
         THEN "InvalidBalanceDistribution"
    ELSE "Ok"

\* initiate_channel_close_check with nonce >= channel.nonce
initiate_channel_close_check_nonce_ge(ch, signer, final_balance1, final_balance2, nonce) ==
    IF ~ch.exists THEN "AccountNotInitialized"
    ELSE IF ~ch.is_initialized THEN "ChannelNotFound"
    ELSE IF ~ch.is_active THEN "ChannelNotActive"
    ELSE IF ~(signer = ch.participant1 \/ signer = ch.participant2)
         THEN "NotChannelParticipant"
    ELSE IF ~Le(ch.nonce, nonce) THEN "NonceMustBeGreater"
    ELSE IF checked_add(final_balance1, final_balance2) = None THEN "MathOverflow"
    ELSE IF ~Le(checked_add(final_balance1, final_balance2), ch.total_deposited)
         THEN "InvalidBalanceDistribution"
    ELSE "Ok"

\* initiate_channel_close_check without the participant require!
initiate_channel_close_check_any_signer(ch, signer, final_balance1, final_balance2, nonce) ==
    IF ~ch.exists THEN "AccountNotInitialized"
    ELSE IF ~ch.is_initialized THEN "ChannelNotFound"
    ELSE IF ~ch.is_active THEN "ChannelNotActive"
    ELSE IF ~Lt(ch.nonce, nonce) THEN "NonceMustBeGreater"
    ELSE IF checked_add(final_balance1, final_balance2) = None THEN "MathOverflow"
    ELSE IF ~Le(checked_add(final_balance1, final_balance2), ch.total_deposited)
         THEN "InvalidBalanceDistribution"
    ELSE "Ok"

\* InitiateChannelClose accounts (lib.rs:315-327), then lib.rs:84-96
initiate_channel_close_check(ch, signer, final_balance1, final_balance2, nonce) ==
    IF ~ch.exists THEN "AccountNotInitialized"
    ELSE IF ~ch.is_initialized THEN "ChannelNotFound"
    ELSE IF ~ch.is_active THEN "ChannelNotActive"
    ELSE IF ~(signer = ch.participant1 \/ signer = ch.participant2)
         THEN "NotChannelParticipant"
    ELSE IF ~Lt(ch.nonce, nonce) THEN "NonceMustBeGreater"
    ELSE IF checked_add(final_balance1, final_balance2) = None THEN "MathOverflow"
    ELSE IF ~Le(checked_add(final_balance1, final_balance2), ch.total_deposited)
         THEN "InvalidBalanceDistribution"
    ELSE "Ok"

\* initiate_channel_close_update with a window of 24 * 60 seconds
initiate_channel_close_update_short(ch, final_balance1, final_balance2, nonce, t) ==
    [ch EXCEPT !.balance1 = final_balance1,
               !.balance2 = final_balance2,
               !.nonce = nonce,
               !.challenge_deadline = t + 24 * 60]

\* initiate_channel_close_update that never starts the challenge period
initiate_channel_close_update_no_deadline(ch, final_balance1, final_balance2, nonce, t) ==
    [ch EXCEPT !.balance1 = final_balance1,
               !.balance2 = final_balance2,
               !.nonce = nonce]

\* initiate_channel_close_update keeping a deadline that is already set
initiate_channel_close_update_keeps_deadline(ch, final_balance1, final_balance2, nonce, t) ==
    [ch EXCEPT !.balance1 = final_balance1,
               !.balance2 = final_balance2,
               !.nonce = nonce,
               !.challenge_deadline = IF @ > 0 THEN @ ELSE t + CHALLENGE_PERIOD]

\* lib.rs:101-104
initiate_channel_close_update(ch, final_balance1, final_balance2, nonce, t) ==
    [ch EXCEPT !.balance1 = final_balance1,
               !.balance2 = final_balance2,
               !.nonce = nonce,
               !.challenge_deadline = t + CHALLENGE_PERIOD]

initiate_channel_close(channel_id, signer, final_balance1, final_balance2, nonce) ==
    LET res == initiate_channel_close_check(channel[channel_id], signer,
                                            final_balance1, final_balance2, nonce) IN
    /\ IF res = "Ok"
       THEN /\ channel' = [channel EXCEPT ![channel_id] =
                    initiate_channel_close_update(@, final_balance1, final_balance2,
                                                  nonce, now)]
            /\ initiated_at' = [initiated_at EXCEPT ![channel_id] = now]
            /\ proposals' = [proposals EXCEPT ![channel_id] =
                    Accept(@, final_balance1, final_balance2, nonce)]
            /\ last' = Tx("initiate_channel_close", channel_id, signer, "Ok",
                          final_balance1, final_balance2, nonce, "")
       ELSE /\ UNCHANGED <<channel, initiated_at, proposals>>
            /\ last' = Failed("initiate_channel_close", channel_id, res)
    /\ UNCHANGED <<payment_channel, vault, vault_mint, tokens, token_account, now,
                   paid, finalized>>

(* ----------------------- challenge_channel_close ----------------------- *)

\* challenge_channel_close_check without require!(new_nonce > channel.nonce)
challenge_channel_close_check_any_nonce(ch, signer, new_balance1, new_balance2, new_nonce, t) ==
    IF ~ch.exists THEN "AccountNotInitialized"
    ELSE IF ~ch.is_initialized THEN "ChannelNotFound"
    ELSE IF ~ch.is_active THEN "ChannelNotActive"
    ELSE IF ~(ch.challenge_deadline > 0) THEN "NoActiveChallengePeriod"
    ELSE IF ~(t < ch.challenge_deadline) THEN "ChallengePeriodExpired"
    ELSE IF ~(signer = ch.participant1 \/ signer = ch.participant2)
         THEN "NotChannelParticipant"
    ELSE IF checked_add(new_balance1, new_balance2) = None THEN "MathOverflow"
    ELSE IF ~Le(checked_add(new_balance1, new_balance2), ch.total_deposited)
         THEN "InvalidBalanceDistribution"
    ELSE "Ok"

\* challenge_channel_close_check with new_nonce >= channel.nonce
challenge_channel_close_check_nonce_ge(ch, signer, new_balance1, new_balance2, new_nonce, t) ==
    IF ~ch.exists THEN "AccountNotInitialized"
    ELSE IF ~ch.is_initialized THEN "ChannelNotFound"
    ELSE IF ~ch.is_active THEN "ChannelNotActive"
    ELSE IF ~(ch.challenge_deadline > 0) THEN "NoActiveChallengePeriod"
    ELSE IF ~(t < ch.challenge_deadline) THEN "ChallengePeriodExpired"
    ELSE IF ~(signer = ch.participant1 \/ signer = ch.participant2)
         THEN "NotChannelParticipant"
    ELSE IF ~Le(ch.nonce, new_nonce) THEN "NewNonceMustBeGreater"
    ELSE IF checked_add(new_balance1, new_balance2) = None THEN "MathOverflow"
    ELSE IF ~Le(checked_add(new_balance1, new_balance2), ch.total_deposited)
         THEN "InvalidBalanceDistribution"
    ELSE "Ok"

\* challenge_channel_close_check with unix_timestamp <= challenge_deadline
challenge_channel_close_check_deadline_le(ch, signer, new_balance1, new_balance2, new_nonce, t) ==
    IF ~ch.exists THEN "AccountNotInitialized"
    ELSE IF ~ch.is_initialized THEN "ChannelNotFound"
    ELSE IF ~ch.is_active THEN "ChannelNotActive"
    ELSE IF ~(ch.challenge_deadline > 0) THEN "NoActiveChallengePeriod"
    ELSE IF ~(t <= ch.challenge_deadline) THEN "ChallengePeriodExpired"
    ELSE IF ~(signer = ch.participant1 \/ signer = ch.participant2)
         THEN "NotChannelParticipant"
    ELSE IF ~Lt(ch.nonce, new_nonce) THEN "NewNonceMustBeGreater"
    ELSE IF checked_add(new_balance1, new_balance2) = None THEN "MathOverflow"
    ELSE IF ~Le(checked_add(new_balance1, new_balance2), ch.total_deposited)
         THEN "InvalidBalanceDistribution"
    ELSE "Ok"

\* ChallengeChannelClose accounts (lib.rs:329-341), then lib.rs:123-140
challenge_channel_close_check(ch, signer, new_balance1, new_balance2, new_nonce, t) ==
    IF ~ch.exists THEN "AccountNotInitialized"
    ELSE IF ~ch.is_initialized THEN "ChannelNotFound"
    ELSE IF ~ch.is_active THEN "ChannelNotActive"
    ELSE IF ~(ch.challenge_deadline > 0) THEN "NoActiveChallengePeriod"
    ELSE IF ~(t < ch.challenge_deadline) THEN "ChallengePeriodExpired"
    ELSE IF ~(signer = ch.participant1 \/ signer = ch.participant2)
         THEN "NotChannelParticipant"
    ELSE IF ~Lt(ch.nonce, new_nonce) THEN "NewNonceMustBeGreater"
    ELSE IF checked_add(new_balance1, new_balance2) = None THEN "MathOverflow"
    ELSE IF ~Le(checked_add(new_balance1, new_balance2), ch.total_deposited)
         THEN "InvalidBalanceDistribution"
    ELSE "Ok"

\* challenge_channel_close_update storing the new nonce without the new split
challenge_channel_close_update_nonce_only(ch, new_balance1, new_balance2, new_nonce) ==
    [ch EXCEPT !.nonce = new_nonce]

\* challenge_channel_close_update shrinking total_deposited to the new split
challenge_channel_close_update_resizes(ch, new_balance1, new_balance2, new_nonce) ==
    [ch EXCEPT !.balance1 = new_balance1,
               !.balance2 = new_balance2,
               !.nonce = new_nonce,
               !.total_deposited = Plus(new_balance1, new_balance2)]

\* challenge_channel_close_update opening a fresh window
challenge_channel_close_update_extends(ch, new_balance1, new_balance2, new_nonce) ==
    [ch EXCEPT !.balance1 = new_balance1,
               !.balance2 = new_balance2,
               !.nonce = new_nonce,
               !.challenge_deadline = @ + CHALLENGE_PERIOD]

\* lib.rs:144-146
challenge_channel_close_update(ch, new_balance1, new_balance2, new_nonce) ==
    [ch EXCEPT !.balance1 = new_balance1,
               !.balance2 = new_balance2,
               !.nonce = new_nonce]

challenge_channel_close(channel_id, signer, new_balance1, new_balance2, new_nonce) ==
    LET res == challenge_channel_close_check(channel[channel_id], signer,
                                             new_balance1, new_balance2, new_nonce, now) IN
    /\ IF res = "Ok"
       THEN /\ channel' = [channel EXCEPT ![channel_id] =
                    challenge_channel_close_update(@, new_balance1, new_balance2,
                                                   new_nonce)]
            /\ proposals' = [proposals EXCEPT ![channel_id] =
                    Accept(@, new_balance1, new_balance2, new_nonce)]
            /\ last' = Tx("challenge_channel_close", channel_id, signer, "Ok",
                          new_balance1, new_balance2, new_nonce, "")
       ELSE /\ UNCHANGED <<channel, proposals>>
            /\ last' = Failed("challenge_channel_close", channel_id, res)
    /\ UNCHANGED <<payment_channel, vault, vault_mint, tokens, token_account, now,
                   paid, finalized, initiated_at>>

(* ----------------------- finalize_channel_close ------------------------ *)

\* settlement_fee dividing by 1000
settlement_fee_per_mille(total_deposited, channel_fee_rate) ==
    IF checked_mul(total_deposited, N(channel_fee_rate)) = None THEN None
    ELSE checked_div(checked_mul(total_deposited, N(channel_fee_rate)), N(1000))

\* lib.rs:169-173: total_deposited * (channel_fee_rate as u64) / 10000, None
\* on overflow; channel_fee_rate is a u16 and a TLC integer
settlement_fee(total_deposited, channel_fee_rate) ==
    IF checked_mul(total_deposited, N(channel_fee_rate)) = None THEN None
    ELSE checked_div(checked_mul(total_deposited, N(channel_fee_rate)),
                     N(BPS_DENOMINATOR))

\* lib.rs:179: `total_to_distribute + fee` is a plain u64 addition.  A build
\* with overflow checks panics when it overflows, one without wraps modulo
\* 2^64; None stands for the panic.
plain_add(a, b, wraps) ==
    IF Lt(U64_MAX, Plus(a, b))
    THEN (IF wraps THEN Minus(Plus(a, b), Plus(U64_MAX, N(1))) ELSE None)
    ELSE Plus(a, b)

\* token::transfer out of `from_amount` (lib.rs:204, 223): fails when the
\* source holds less than the amount and, checked after that, when source
\* and destination are of different mints
transfer_ok(from_amount, amount) == Le(amount, from_amount)

\* finalize_channel_close_check without require!(challenge_deadline > 0)
finalize_channel_close_check_no_deadline(ch, registry, channel_vault, participant1_token_account, participant2_token_account, t, wraps) ==
    IF ~ch.exists THEN "AccountNotInitialized"
    ELSE IF ~participant1_token_account.exists THEN "AccountNotInitialized"
    ELSE IF ~participant2_token_account.exists THEN "AccountNotInitialized"
    ELSE IF ~registry.exists THEN "AccountNotInitialized"
    ELSE IF participant1_token_account.authority # ch.participant1
         THEN "ConstraintTokenOwner"
    ELSE IF participant1_token_account.mint # registry.token_mint
         THEN "ConstraintTokenMint"
    ELSE IF participant2_token_account.authority # ch.participant2
         THEN "ConstraintTokenOwner"
    ELSE IF participant2_token_account.mint # registry.token_mint
         THEN "ConstraintTokenMint"
    ELSE IF ~ch.is_initialized THEN "ChannelNotFound"
    ELSE IF ~ch.is_active THEN "ChannelNotActive"
    ELSE IF ~(t >= ch.challenge_deadline) THEN "ChallengePeriodNotEnded"
    ELSE IF settlement_fee(ch.total_deposited, registry.channel_fee_rate) = None
         THEN "MathOverflow"
    ELSE IF checked_add(ch.balance1, ch.balance2) = None THEN "MathOverflow"
    ELSE IF plain_add(checked_add(ch.balance1, ch.balance2),
                      settlement_fee(ch.total_deposited, registry.channel_fee_rate),
                      wraps) = None
         THEN "Panic"
    ELSE IF ~Le(plain_add(checked_add(ch.balance1, ch.balance2),
                          settlement_fee(ch.total_deposited, registry.channel_fee_rate),
                          wraps), ch.total_deposited)
         THEN "InsufficientFunds"
    ELSE IF Lt(N(0), ch.balance1) /\ ~transfer_ok(channel_vault.amount, ch.balance1)
         THEN "TokenInsufficientFunds"
    ELSE IF Lt(N(0), ch.balance1)
            /\ channel_vault.mint # participant1_token_account.mint
         THEN "TokenMintMismatch"
    ELSE IF Lt(N(0), ch.balance2)
            /\ ~transfer_ok(IF Lt(N(0), ch.balance1)
                            THEN Minus(channel_vault.amount, ch.balance1)
                            ELSE channel_vault.amount, ch.balance2)
         THEN "TokenInsufficientFunds"
    ELSE IF Lt(N(0), ch.balance2)
            /\ channel_vault.mint # participant2_token_account.mint
         THEN "TokenMintMismatch"
    ELSE "Ok"

\* finalize_channel_close_check with the clock compared to the deadline less
\* half a window
finalize_channel_close_check_early(ch, registry, channel_vault, participant1_token_account, participant2_token_account, t, wraps) ==
    IF ~ch.exists THEN "AccountNotInitialized"
    ELSE IF ~participant1_token_account.exists THEN "AccountNotInitialized"
    ELSE IF ~participant2_token_account.exists THEN "AccountNotInitialized"
    ELSE IF ~registry.exists THEN "AccountNotInitialized"
    ELSE IF participant1_token_account.authority # ch.participant1
         THEN "ConstraintTokenOwner"
    ELSE IF participant1_token_account.mint # registry.token_mint
         THEN "ConstraintTokenMint"
    ELSE IF participant2_token_account.authority # ch.participant2
         THEN "ConstraintTokenOwner"
    ELSE IF participant2_token_account.mint # registry.token_mint
         THEN "ConstraintTokenMint"
    ELSE IF ~ch.is_initialized THEN "ChannelNotFound"
    ELSE IF ~ch.is_active THEN "ChannelNotActive"
    ELSE IF ~(ch.challenge_deadline > 0) THEN "NoActiveChallengePeriod"
    ELSE IF ~(t >= ch.challenge_deadline - 12 * 60 * 60) THEN "ChallengePeriodNotEnded"
    ELSE IF settlement_fee(ch.total_deposited, registry.channel_fee_rate) = None
         THEN "MathOverflow"
    ELSE IF checked_add(ch.balance1, ch.balance2) = None THEN "MathOverflow"
    ELSE IF plain_add(checked_add(ch.balance1, ch.balance2),
                      settlement_fee(ch.total_deposited, registry.channel_fee_rate),
                      wraps) = None
         THEN "Panic"
    ELSE IF ~Le(plain_add(checked_add(ch.balance1, ch.balance2),
                          settlement_fee(ch.total_deposited, registry.channel_fee_rate),
                          wraps), ch.total_deposited)
         THEN "InsufficientFunds"
    ELSE IF Lt(N(0), ch.balance1) /\ ~transfer_ok(channel_vault.amount, ch.balance1)
         THEN "TokenInsufficientFunds"
    ELSE IF Lt(N(0), ch.balance1)
            /\ channel_vault.mint # participant1_token_account.mint
         THEN "TokenMintMismatch"
    ELSE IF Lt(N(0), ch.balance2)
            /\ ~transfer_ok(IF Lt(N(0), ch.balance1)
                            THEN Minus(channel_vault.amount, ch.balance1)
                            ELSE channel_vault.amount, ch.balance2)
         THEN "TokenInsufficientFunds"
    ELSE IF Lt(N(0), ch.balance2)
            /\ channel_vault.mint # participant2_token_account.mint
         THEN "TokenMintMismatch"
    ELSE "Ok"

\* finalize_channel_close_check comparing the split alone, without the fee,
\* to total_deposited
finalize_channel_close_check_no_fee(ch, registry, channel_vault, participant1_token_account, participant2_token_account, t, wraps) ==
    IF ~ch.exists THEN "AccountNotInitialized"
    ELSE IF ~participant1_token_account.exists THEN "AccountNotInitialized"
    ELSE IF ~participant2_token_account.exists THEN "AccountNotInitialized"
    ELSE IF ~registry.exists THEN "AccountNotInitialized"
    ELSE IF participant1_token_account.authority # ch.participant1
         THEN "ConstraintTokenOwner"
    ELSE IF participant1_token_account.mint # registry.token_mint
         THEN "ConstraintTokenMint"
    ELSE IF participant2_token_account.authority # ch.participant2
         THEN "ConstraintTokenOwner"
    ELSE IF participant2_token_account.mint # registry.token_mint
         THEN "ConstraintTokenMint"
    ELSE IF ~ch.is_initialized THEN "ChannelNotFound"
    ELSE IF ~ch.is_active THEN "ChannelNotActive"
    ELSE IF ~(ch.challenge_deadline > 0) THEN "NoActiveChallengePeriod"
    ELSE IF ~(t >= ch.challenge_deadline) THEN "ChallengePeriodNotEnded"
    ELSE IF settlement_fee(ch.total_deposited, registry.channel_fee_rate) = None
         THEN "MathOverflow"
    ELSE IF checked_add(ch.balance1, ch.balance2) = None THEN "MathOverflow"
    ELSE IF ~Le(checked_add(ch.balance1, ch.balance2), ch.total_deposited)
         THEN "InsufficientFunds"
    ELSE IF Lt(N(0), ch.balance1) /\ ~transfer_ok(channel_vault.amount, ch.balance1)
         THEN "TokenInsufficientFunds"
    ELSE IF Lt(N(0), ch.balance1)
            /\ channel_vault.mint # participant1_token_account.mint
         THEN "TokenMintMismatch"
    ELSE IF Lt(N(0), ch.balance2)
            /\ ~transfer_ok(IF Lt(N(0), ch.balance1)
                            THEN Minus(channel_vault.amount, ch.balance1)
                            ELSE channel_vault.amount, ch.balance2)
         THEN "TokenInsufficientFunds"
    ELSE IF Lt(N(0), ch.balance2)
            /\ channel_vault.mint # participant2_token_account.mint
         THEN "TokenMintMismatch"
    ELSE "Ok"

\* finalize_channel_close_check without the token::authority constraints on
\* the two destination accounts
finalize_channel_close_check_any_owner(ch, registry, channel_vault, participant1_token_account, participant2_token_account, t, wraps) ==
    IF ~ch.exists THEN "AccountNotInitialized"
    ELSE IF ~participant1_token_account.exists THEN "AccountNotInitialized"
    ELSE IF ~participant2_token_account.exists THEN "AccountNotInitialized"
    ELSE IF ~registry.exists THEN "AccountNotInitialized"
    ELSE IF participant1_token_account.mint # registry.token_mint
         THEN "ConstraintTokenMint"
    ELSE IF participant2_token_account.mint # registry.token_mint
         THEN "ConstraintTokenMint"
    ELSE IF ~ch.is_initialized THEN "ChannelNotFound"
    ELSE IF ~ch.is_active THEN "ChannelNotActive"
    ELSE IF ~(ch.challenge_deadline > 0) THEN "NoActiveChallengePeriod"
    ELSE IF ~(t >= ch.challenge_deadline) THEN "ChallengePeriodNotEnded"
    ELSE IF settlement_fee(ch.total_deposited, registry.channel_fee_rate) = None
         THEN "MathOverflow"
    ELSE IF checked_add(ch.balance1, ch.balance2) = None THEN "MathOverflow"
    ELSE IF plain_add(checked_add(ch.balance1, ch.balance2),
                      settlement_fee(ch.total_deposited, registry.channel_fee_rate),
                      wraps) = None
         THEN "Panic"
    ELSE IF ~Le(plain_add(checked_add(ch.balance1, ch.balance2),
                          settlement_fee(ch.total_deposited, registry.channel_fee_rate),
                          wraps), ch.total_deposited)
         THEN "InsufficientFunds"
    ELSE IF Lt(N(0), ch.balance1) /\ ~transfer_ok(channel_vault.amount, ch.balance1)
         THEN "TokenInsufficientFunds"
    ELSE IF Lt(N(0), ch.balance1)
            /\ channel_vault.mint # participant1_token_account.mint
         THEN "TokenMintMismatch"
    ELSE IF Lt(N(0), ch.balance2)
            /\ ~transfer_ok(IF Lt(N(0), ch.balance1)
                            THEN Minus(channel_vault.amount, ch.balance1)
                            ELSE channel_vault.amount, ch.balance2)
         THEN "TokenInsufficientFunds"
    ELSE IF Lt(N(0), ch.balance2)
            /\ channel_vault.mint # participant2_token_account.mint
         THEN "TokenMintMismatch"
    ELSE "Ok"

\* FinalizeChannelClose accounts (lib.rs:343-379), then lib.rs:161-179 and
\* the two payouts (lib.rs:188-224).  The caller chooses the registry and
\* the two destination accounts: the registry is bound to nothing but its
\* own seeds (lib.rs:372-376), each destination to the registry's mint and
\* to the participant as its authority (lib.rs:358-370).  All accounts are
\* loaded before the first constraint is checked.
finalize_channel_close_check(ch, registry, channel_vault, participant1_token_account, participant2_token_account, t, wraps) ==
    IF ~ch.exists THEN "AccountNotInitialized"
    ELSE IF ~participant1_token_account.exists THEN "AccountNotInitialized"
    ELSE IF ~participant2_token_account.exists THEN "AccountNotInitialized"
    ELSE IF ~registry.exists THEN "AccountNotInitialized"
    ELSE IF participant1_token_account.authority # ch.participant1
         THEN "ConstraintTokenOwner"
    ELSE IF participant1_token_account.mint # registry.token_mint
         THEN "ConstraintTokenMint"
    ELSE IF participant2_token_account.authority # ch.participant2
         THEN "ConstraintTokenOwner"
    ELSE IF participant2_token_account.mint # registry.token_mint
         THEN "ConstraintTokenMint"
    ELSE IF ~ch.is_initialized THEN "ChannelNotFound"
    ELSE IF ~ch.is_active THEN "ChannelNotActive"
    ELSE IF ~(ch.challenge_deadline > 0) THEN "NoActiveChallengePeriod"
    ELSE IF ~(t >= ch.challenge_deadline) THEN "ChallengePeriodNotEnded"
    ELSE IF settlement_fee(ch.total_deposited, registry.channel_fee_rate) = None
         THEN "MathOverflow"
    ELSE IF checked_add(ch.balance1, ch.balance2) = None THEN "MathOverflow"
    ELSE IF plain_add(checked_add(ch.balance1, ch.balance2),
                      settlement_fee(ch.total_deposited, registry.channel_fee_rate),
                      wraps) = None
         THEN "Panic"
    ELSE IF ~Le(plain_add(checked_add(ch.balance1, ch.balance2),
                          settlement_fee(ch.total_deposited, registry.channel_fee_rate),
                          wraps), ch.total_deposited)
         THEN "InsufficientFunds"
    ELSE IF Lt(N(0), ch.balance1) /\ ~transfer_ok(channel_vault.amount, ch.balance1)
         THEN "TokenInsufficientFunds"
    ELSE IF Lt(N(0), ch.balance1)
            /\ channel_vault.mint # participant1_token_account.mint
         THEN "TokenMintMismatch"
    ELSE IF Lt(N(0), ch.balance2)
            /\ ~transfer_ok(IF Lt(N(0), ch.balance1)
                            THEN Minus(channel_vault.amount, ch.balance1)
                            ELSE channel_vault.amount, ch.balance2)
         THEN "TokenInsufficientFunds"
    ELSE IF Lt(N(0), ch.balance2)
            /\ channel_vault.mint # participant2_token_account.mint
         THEN "TokenMintMismatch"
    ELSE "Ok"
\* payout1 handing participant1 all that participant2 does not get
payout1_remainder(ch) == Minus(ch.total_deposited, ch.balance2)

\* lib.rs:188-205: the amount transferred to participant1_token_account
payout1(ch) == IF Lt(N(0), ch.balance1) THEN ch.balance1 ELSE N(0)

\* payout2 transferring balance1 a second time
payout2_pays_balance1(ch) == IF Lt(N(0), ch.balance2) THEN ch.balance1 ELSE N(0)

\* lib.rs:207-224: the amount transferred to participant2_token_account
payout2(ch) == IF Lt(N(0), ch.balance2) THEN ch.balance2 ELSE N(0)

\* what the token account `account` receives when payout1 goes to the
\* account to1 and payout2 to the account to2
Received(account, ch, to1, to2) ==
    Plus(IF account = to1 THEN payout1(ch) ELSE N(0),
         IF account = to2 THEN payout2(ch) ELSE N(0))

\* finalize_channel_close_update without channel.is_active = false
finalize_channel_close_update_stays_active(ch) == ch

\* lib.rs:226
finalize_channel_close_update(ch) == [ch EXCEPT !.is_active = FALSE]

\* finalize_channel_close open to the two participants only
finalize_channel_close_participants_only(channel_id, caller, token_mint, to1, to2, wraps) ==
    LET ch == channel[channel_id]
        checked == finalize_channel_close_check(ch, RegistryAt(token_mint),
                       VaultAt(channel_id), TokenAccountAt(to1), TokenAccountAt(to2),
                       now, wraps)
        res == IF checked = "Ok" /\ caller \notin {ch.participant1, ch.participant2}
               THEN "UnauthorizedParticipant" ELSE checked
    IN
    /\ IF res = "Ok"
       THEN /\ vault' = [vault EXCEPT ![channel_id] =
                    Minus(Minus(@, payout1(ch)), payout2(ch))]
            /\ tokens' = [u \in Users |-> [m \in Mints |->
                    Plus(tokens[u][m], Received(<<"own", u, m>>, ch, to1, to2))]]
            /\ token_account' = [u \in Users |-> [m \in Mints |->
                    [token_account[u][m] EXCEPT !.amount =
                        Plus(@, Received(<<"pda", u, m>>, ch, to1, to2))]]]
            /\ channel' = [channel EXCEPT ![channel_id] = finalize_channel_close_update(@)]
            /\ paid' = [paid EXCEPT ![channel_id] =
                    <<Plus(@[1], payout1(ch)), Plus(@[2], payout2(ch))>>]
            /\ finalized' = [finalized EXCEPT ![channel_id] = @ + 1]
            /\ last' = OnMint(token_mint,
                              Tx("finalize_channel_close", channel_id, caller, "Ok",
                                 payout1(ch), payout2(ch),
                                 settlement_fee(ch.total_deposited,
                                     RegistryAt(token_mint).channel_fee_rate),
                                 ""))
       ELSE /\ UNCHANGED <<vault, tokens, token_account, channel, paid, finalized>>
            /\ last' = Failed("finalize_channel_close", channel_id, res)
    /\ UNCHANGED <<payment_channel, vault_mint, now, initiated_at, proposals>>

\* the caller hands in the channel (by its id), the registry (by its
\* token_mint) and the two destination token accounts to1 and to2
finalize_channel_close(channel_id, caller, token_mint, to1, to2, wraps) ==
    LET ch == channel[channel_id]
        res == finalize_channel_close_check(ch, RegistryAt(token_mint),
                   VaultAt(channel_id), TokenAccountAt(to1), TokenAccountAt(to2),
                   now, wraps)
    IN
    /\ IF res = "Ok"
       THEN /\ vault' = [vault EXCEPT ![channel_id] =
                    Minus(Minus(@, payout1(ch)), payout2(ch))]
            /\ tokens' = [u \in Users |-> [m \in Mints |->
                    Plus(tokens[u][m], Received(<<"own", u, m>>, ch, to1, to2))]]
            /\ token_account' = [u \in Users |-> [m \in Mints |->
                    [token_account[u][m] EXCEPT !.amount =
                        Plus(@, Received(<<"pda", u, m>>, ch, to1, to2))]]]
            /\ channel' = [channel EXCEPT ![channel_id] = finalize_channel_close_update(@)]
            /\ paid' = [paid EXCEPT ![channel_id] =
                    <<Plus(@[1], payout1(ch)), Plus(@[2], payout2(ch))>>]
            /\ finalized' = [finalized EXCEPT ![channel_id] = @ + 1]
            /\ last' = OnMint(token_mint,
                              Tx("finalize_channel_close", channel_id, caller, "Ok",
                                 payout1(ch), payout2(ch),
                                 settlement_fee(ch.total_deposited,
                                     RegistryAt(token_mint).channel_fee_rate),
                                 ""))
       ELSE /\ UNCHANGED <<vault, tokens, token_account, channel, paid, finalized>>
            /\ last' = Failed("finalize_channel_close", channel_id, res)
    /\ UNCHANGED <<payment_channel, vault_mint, now, initiated_at, proposals>>

(* ------------------------ set_channel_fee_rate ------------------------- *)

\* set_channel_fee_rate without the has_one constraint
set_channel_fee_rate_check_any_signer(registry, authority, rate) ==
    IF ~registry.exists THEN "AccountNotInitialized"
    ELSE IF ~(rate <= MAX_FEE_RATE) THEN "RateTooHigh"
    ELSE "Ok"

\* UpdateChannelFeeRate accounts (has_one = authority, lib.rs:381-393), then
\* lib.rs:232
set_channel_fee_rate_check(registry, authority, rate) ==
    IF ~registry.exists THEN "AccountNotInitialized"
    ELSE IF registry.authority # authority THEN "ConstraintHasOne"
    ELSE IF ~(rate <= MAX_FEE_RATE) THEN "RateTooHigh"
    ELSE "Ok"

set_channel_fee_rate(authority, token_mint, rate) ==
    LET res == set_channel_fee_rate_check(RegistryAt(token_mint), authority, rate) IN
    /\ IF res = "Ok"
       THEN /\ payment_channel' = [payment_channel EXCEPT
                                      ![token_mint].channel_fee_rate = rate]
            /\ last' = OnMint(token_mint,
                              Tx("set_channel_fee_rate", "", authority, "Ok", rate,
                                 N(0), N(0), ""))
       ELSE /\ UNCHANGED payment_channel
            /\ last' = Failed("set_channel_fee_rate", "", res)
    /\ UNCHANGED <<channel, vault, vault_mint, tokens, token_account, now, paid,
                   finalized, initiated_at, proposals>>

(* -------------------------------- clock -------------------------------- *)

\* the cluster clock advances between transactions
Tick(d) ==
    /\ now + d <= MaxTime
    /\ now' = now + d
    /\ last' = Failed("tick", "", "Ok")
    /\ UNCHANGED <<payment_channel, channel, vault, vault_mint, tokens, token_account,
                   paid, finalized, initiated_at, proposals>>

(* ---------------------------- specification ---------------------------- *)

Next ==
    \/ \E u \in Authorities, g \in Registrations : initialize(u, g[1], g[2])
    \/ \E c \in OpenIds, u \in Users, p \in Counterparties, o \in Openings :
          open_payment_channel(c, u, p, o[1], o[2])
    \/ \E c \in CloseIds, u \in Users, s \in Splits, n \in Nonces :
          initiate_channel_close(c, u, s[1], s[2], n)
    \/ \E c \in CloseIds, u \in Users, s \in Splits, n \in Nonces :
          challenge_channel_close(c, u, s[1], s[2], n)
    \/ \E c \in CloseIds, u \in Users, g \in Settlements, w \in Builds :
          finalize_channel_close(c, u, g[1], g[2], g[3], w)
    \/ \E u \in Users, g \in RateChanges : set_channel_fee_rate(u, g[1], g[2])
    \/ \E d \in TickSteps : Tick(d)

Spec == Init /\ [][Next]_vars

(* -------------------- specification of two channels -------------------- *)

TwoIds == {"c1", "c2"}

\* both users hold the tokens of one deposit in their "token-account"
\* accounts and open channels with each other
TwoFunded == {"A", "B"}

TwoDeposits == {N(1000)}

TwoSplits == {<<N(400), N(600)>>, <<N(1000), N(0)>>}

TwoNonces == {N(1), N(2)}

TwoFeeRates == {0, 100}

TwoTickSteps == {86400}

\* what the caller of finalize_channel_close hands in: the own accounts of A
\* and B in either order, and the account of C in place of participant1's
TwoSettlements ==
    {<<"M", <<"own", "A", "M">>, <<"own", "B", "M">>>>,
     <<"M", <<"own", "B", "M">>, <<"own", "A", "M">>>>,
     <<"M", <<"own", "C", "M">>, <<"own", "B", "M">>>>}

\* B has created the registry at rate 0
TwoInit ==
    /\ payment_channel = OneRegistry(0)
    /\ channel = [c \in ChannelIds |-> NoChannel]
    /\ vault = [c \in ChannelIds |-> N(0)]
    /\ vault_mint = VaultMintsOf({})
    /\ tokens = Holding({})
    /\ token_account = TokenAccountsOf(TwoFunded, N(InitialTokens - 1000))
    /\ now = 0
    /\ paid = [c \in ChannelIds |-> <<N(0), N(0)>>]
    /\ finalized = [c \in ChannelIds |-> 0]
    /\ initiated_at = [c \in ChannelIds |-> 0]
    /\ proposals = [c \in ChannelIds |-> NoProposals]
    /\ last = Failed("none", "", "Ok")

TwoNext ==
    \/ \E c \in TwoIds, u \in TwoFunded, p \in TwoFunded, d \in TwoDeposits :
          open_payment_channel(c, u, p, d, "M")
    \/ \E c \in TwoIds, u \in TwoFunded, s \in TwoSplits, n \in TwoNonces :
          initiate_channel_close(c, u, s[1], s[2], n)
    \/ \E c \in TwoIds, u \in TwoFunded, s \in TwoSplits, n \in TwoNonces :
          challenge_channel_close(c, u, s[1], s[2], n)
    \/ \E c \in TwoIds, g \in TwoSettlements, w \in Builds :
          finalize_channel_close(c, "C", g[1], g[2], g[3], w)
    \/ \E r \in TwoFeeRates : set_channel_fee_rate("B", "M", r)
    \/ \E d \in TwoTickSteps : Tick(d)

SpecTwo == TwoInit /\ [][TwoNext]_vars

(* ------------------ specification of racing updates -------------------- *)

RaceSplits == {<<N(400), N(600)>>, <<N(600), N(390)>>, <<N(1000), N(0)>>}

\* the nonces of the updates submitted to a channel that is closing at nonce 1
RaceNonces == {N(n) : n \in 1 .. MaxNonce + 1}

\* B created the registry, A opened c1 with B and a deposit of 1000 and
\* initiated the close at nonce 1, all at clock 0
RaceInit ==
    /\ payment_channel = OneRegistry(0)
    /\ channel = [c \in ChannelIds |->
          IF c = "c1"
          THEN initiate_channel_close_update(
                   open_payment_channel_init("c1", "A", "B", N(1000), 0),
                   N(1000), N(0), N(1), 0)
          ELSE NoChannel]
    /\ vault = [c \in ChannelIds |-> IF c = "c1" THEN N(1000) ELSE N(0)]
    /\ vault_mint = VaultMintsOf({"c1"})
    /\ tokens = Holding({})
    /\ token_account = TokenAccountsOf({"A"}, N(InitialTokens - 1000))
    /\ now = 0
    /\ paid = [c \in ChannelIds |-> <<N(0), N(0)>>]
    /\ finalized = [c \in ChannelIds |-> 0]
    /\ initiated_at = [c \in ChannelIds |-> 0]
    /\ proposals = [c \in ChannelIds |->
          IF c = "c1" THEN Accept(NoProposals, N(1000), N(0), N(1)) ELSE NoProposals]
    /\ last = Tx("initiate_channel_close", "c1", "A", "Ok", N(1000), N(0), N(1), "")

\* the transactions that write the channel account are applied one at a time
RaceNext ==
    \/ \E u \in Users, s \in RaceSplits, n \in RaceNonces :
          initiate_channel_close("c1", u, s[1], s[2], n)
    \/ \E u \in Users, s \in RaceSplits, n \in RaceNonces :
          challenge_channel_close("c1", u, s[1], s[2], n)
    \/ \E d \in TickSteps : Tick(d)

SpecRace == RaceInit /\ [][RaceNext]_vars

(* ------------------- specification of the settlement fee ---------------- *)

\* deposits and rates (u16) around the places where the quotient steps and
\* where the product overflows: 281479271743489 is the largest deposit
\* whose product with 65535 is a u64
FeeDeposits == {N(1), N(99), N(199), N(1000), N(1310), N(12345), N(131071),
                <<281, 4792, 7174, 3489>>, <<281, 4792, 7174, 3490>>, U64_MAX}

FeeRatesWide == {0, 1, 7, 50, 100, 101, 65535}

\* what the proposed split leaves in the vault
FeeSlacks == {N(0), N(1), N(2), N(8), N(13), N(14)}

\* B created the registry at rate r, A opened c1 with B and deposit d at
\* clock 0 and initiated the close with the split <<d - k, 0>>; the window
\* has elapsed
\* the destinations handed in: the participants' own accounts, or A's
\* "token-account" account
FeeSettlements ==
    {<<"M", <<"own", "A", "M">>, <<"own", "B", "M">>>>,
     <<"M", <<"pda", "A", "M">>, <<"own", "B", "M">>>>}

FeeInit ==
    \E d \in FeeDeposits, r \in FeeRatesWide, k \in FeeSlacks :
        /\ Le(k, d)
        /\ payment_channel = OneRegistry(r)
        /\ channel = [c \in ChannelIds |->
              IF c = "c1"
              THEN initiate_channel_close_update(
                       open_payment_channel_init("c1", "A", "B", d, 0),
                       Minus(d, k), N(0), N(1), 0)
              ELSE NoChannel]
        /\ vault = [c \in ChannelIds |-> IF c = "c1" THEN d ELSE N(0)]
        /\ vault_mint = VaultMintsOf({"c1"})
        /\ tokens = Holding({})
        /\ token_account = TokenAccountsOf({"A"}, N(0))
        /\ now = CHALLENGE_PERIOD
        /\ paid = [c \in ChannelIds |-> <<N(0), N(0)>>]
        /\ finalized = [c \in ChannelIds |-> 0]
        /\ initiated_at = [c \in ChannelIds |-> 0]
        /\ proposals = [c \in ChannelIds |->
              IF c = "c1" THEN Accept(NoProposals, Minus(d, k), N(0), N(1))
              ELSE NoProposals]
        /\ last = Failed("tick", "", "Ok")

FeeNext ==
    \E u \in Users, g \in FeeSettlements, w \in Builds :
        finalize_channel_close("c1", u, g[1], g[2], g[3], w)

SpecFee == FeeInit /\ [][FeeNext]_vars

(* --------------- specification of repeated initiation ------------------- *)

\* the channel of RaceInit: its participants re-initiate the close, anyone
\* tries to finalize it, and the clock advances
ResetNext ==
    \/ \E u \in Users, s \in RaceSplits, n \in RaceNonces :
          initiate_channel_close("c1", u, s[1], s[2], n)
    \/ \E u \in Users, w \in Builds :
          finalize_channel_close("c1", u, vault_mint["c1"], OwnAccounts("c1")[1],
                                 OwnAccounts("c1")[2], w)
    \/ \E d \in TickSteps : Tick(d)

SpecReset == RaceInit /\ [][ResetNext]_vars

(* ------------- specification of one participant acting alone ------------- *)

\* everything to one side, with and without room for a fee of 1%, and the
\* even-handed <<400, 600>>
SoloSplits == {<<N(0), N(1000)>>, <<N(1000), N(0)>>, <<N(0), N(990)>>,
               <<N(990), N(0)>>, <<N(400), N(600)>>}

\* B created the registry at rate r; c1 with a deposit of 1000 was opened
\* either by A with B or by B with A and is Open
SoloInit ==
    \E r \in {0, MAX_FEE_RATE}, p1 \in Counterparties, p2 \in Counterparties :
        /\ p1 # p2
        /\ payment_channel = OneRegistry(r)
        /\ channel = [c \in ChannelIds |->
              IF c = "c1" THEN open_payment_channel_init("c1", p1, p2, N(1000), 0)
              ELSE NoChannel]
        /\ vault = [c \in ChannelIds |-> IF c = "c1" THEN N(1000) ELSE N(0)]
        /\ vault_mint = VaultMintsOf({"c1"})
        /\ tokens = Holding({})
        /\ token_account = TokenAccountsOf({p1}, N(InitialTokens - 1000))
        /\ now = 0
        /\ paid = [c \in ChannelIds |-> <<N(0), N(0)>>]
        /\ finalized = [c \in ChannelIds |-> 0]
        /\ initiated_at = [c \in ChannelIds |-> 0]
        /\ proposals = [c \in ChannelIds |-> NoProposals]
        /\ last = OnMint("M", Tx("open_payment_channel", "c1", p1, "Ok", N(1000), N(0),
                                N(0), p2))

\* B is the only one to send transactions
SoloNext ==
    \/ \E s \in SoloSplits, n \in Nonces : initiate_channel_close("c1", "B", s[1], s[2], n)
    \/ \E w \in Builds :
          finalize_channel_close("c1", "B", vault_mint["c1"], OwnAccounts("c1")[1],
                                 OwnAccounts("c1")[2], w)
    \/ \E d \in TickSteps : Tick(d)

SpecSolo == SoloInit /\ [][SoloNext]_vars

(* ----------------- specification of the largest nonce ------------------- *)

\* the nonces submitted: a small one and the two largest u64
TopNonces == {N(2), Minus(U64_MAX, N(1)), U64_MAX}

\* the whole deposit to one side, and a split with room for a fee of 1%
TopSplits == {<<N(1000), N(0)>>, <<N(0), N(1000)>>, <<N(990), N(0)>>}

\* the channel of RaceInit, with the registry at the rate of 1%
TopInit ==
    /\ payment_channel = OneRegistry(MAX_FEE_RATE)
    /\ channel = [c \in ChannelIds |->
          IF c = "c1"
          THEN initiate_channel_close_update(
                   open_payment_channel_init("c1", "A", "B", N(1000), 0),
                   N(1000), N(0), N(1), 0)
          ELSE NoChannel]
    /\ vault = [c \in ChannelIds |-> IF c = "c1" THEN N(1000) ELSE N(0)]
    /\ vault_mint = VaultMintsOf({"c1"})
    /\ tokens = Holding({})
    /\ token_account = TokenAccountsOf({"A"}, N(InitialTokens - 1000))
    /\ now = 0
    /\ paid = [c \in ChannelIds |-> <<N(0), N(0)>>]
    /\ finalized = [c \in ChannelIds |-> 0]
    /\ initiated_at = [c \in ChannelIds |-> 0]
    /\ proposals = [c \in ChannelIds |->
          IF c = "c1" THEN Accept(NoProposals, N(1000), N(0), N(1)) ELSE NoProposals]
    /\ last = Tx("initiate_channel_close", "c1", "A", "Ok", N(1000), N(0), N(1), "")

TopNext ==
    \/ \E u \in Counterparties, s \in TopSplits, n \in TopNonces :
          initiate_channel_close("c1", u, s[1], s[2], n)
    \/ \E u \in Counterparties, s \in TopSplits, n \in TopNonces :
          challenge_channel_close("c1", u, s[1], s[2], n)
    \/ \E w \in Builds :
          finalize_channel_close("c1", "C", vault_mint["c1"], OwnAccounts("c1")[1],
                                 OwnAccounts("c1")[2], w)
    \/ \E r \in {0, MAX_FEE_RATE} : set_channel_fee_rate("B", "M", r)
    \/ \E d \in TickSteps : Tick(d)

SpecTop == TopInit /\ [][TopNext]_vars

(* ---------------- specification of a changing fee rate ------------------ *)

RateDeposits == {N(1000), N(1310)}

\* the rates the authority and the other users submit after the close was
\* initiated
RateRates == {0, 50, 100, 101}

\* what the split leaves in the vault: the slacks of FeeSlacks, and all of
\* a deposit (the split <<0, 0>>)
RateSlacks == FeeSlacks \cup RateDeposits

\* the rate of the registry of mint "X", as initialize stored it
RateOfX == 65535

\* the registry handed in and the two destinations: of the channel's mint, or
\* of the mint "X"
RateSettlements ==
    {<<"M", <<"own", "A", "M">>, <<"own", "B", "M">>>>,
     <<"X", <<"own", "A", "X">>, <<"own", "B", "X">>>>}

\* B created the registry of "M" at rate 0 and the one of "X" at RateOfX; A
\* opened c1 with B, mint "M" and deposit d and initiated the close with the
\* split <<d - k, 0>>, at clock 0
RateInit ==
    \E d \in RateDeposits, k \in RateSlacks :
        /\ Le(k, d)
        /\ payment_channel = BothRegistries(0, RateOfX)
        /\ channel = [c \in ChannelIds |->
              IF c = "c1"
              THEN initiate_channel_close_update(
                       open_payment_channel_init("c1", "A", "B", d, 0),
                       Minus(d, k), N(0), N(1), 0)
              ELSE NoChannel]
        /\ vault = [c \in ChannelIds |-> IF c = "c1" THEN d ELSE N(0)]
        /\ vault_mint = VaultMintsOf({"c1"})
        /\ tokens = Holding({})
        /\ token_account = TokenAccountsOf({"A"}, N(0))
        /\ now = 0
        /\ paid = [c \in ChannelIds |-> <<N(0), N(0)>>]
        /\ finalized = [c \in ChannelIds |-> 0]
        /\ initiated_at = [c \in ChannelIds |-> 0]
        /\ proposals = [c \in ChannelIds |->
              IF c = "c1" THEN Accept(NoProposals, Minus(d, k), N(0), N(1))
              ELSE NoProposals]
        /\ last = Tx("initiate_channel_close", "c1", "A", "Ok", Minus(d, k), N(0), N(1),
                     "")

RateNext ==
    \/ \E u \in Users, m \in Mints, r \in RateRates : set_channel_fee_rate(u, m, r)
    \/ \E u \in Users, g \in RateSettlements, w \in Builds :
          finalize_channel_close("c1", u, g[1], g[2], g[3], w)
    \/ \E d \in TickSteps : Tick(d)

SpecRate == RateInit /\ [][RateNext]_vars

(* -------------- specification of the accounts handed in ----------------- *)

\* the splits proposed: nothing to either side, a split with room for a fee
\* of 1%, one side zero, and the whole deposit
MintSplits == {<<N(0), N(0)>>, <<N(600), N(390)>>, <<N(0), N(600)>>,
               <<N(400), N(600)>>}

\* the accounts handed in as participant1_token_account: A's own account,
\* its "token-account" account, the account of a third user, and A's account
\* of the other mint
MintAccounts1 ==
    {<<"own", "A", "M">>, <<"pda", "A", "M">>, <<"own", "C", "M">>, <<"own", "A", "X">>}

\* the accounts handed in as participant2_token_account: B's own account,
\* its "token-account" account (which does not exist), the account of
\* participant1, and B's account of the other mint
MintAccounts2 ==
    {<<"own", "B", "M">>, <<"pda", "B", "M">>, <<"own", "A", "M">>, <<"own", "B", "X">>}

\* every registry with every pair of these accounts
MintSettlements == Mints \X MintAccounts1 \X MintAccounts2

\* B created the registries of both mints, the one of "M" at the rate r and
\* the one of "X" at the rate x; A opened c1 with B, mint "M" and a deposit
\* of 1000 at clock 0
MintInit ==
    \E r \in {0, MAX_FEE_RATE}, x \in {0, RateOfX} :
        /\ payment_channel = BothRegistries(r, x)
        /\ channel = [c \in ChannelIds |->
              IF c = "c1" THEN open_payment_channel_init("c1", "A", "B", N(1000), 0)
              ELSE NoChannel]
        /\ vault = [c \in ChannelIds |-> IF c = "c1" THEN N(1000) ELSE N(0)]
        /\ vault_mint = VaultMintsOf({"c1"})
        /\ tokens = Holding({})
        /\ token_account = TokenAccountsOf({"A"}, N(InitialTokens - 1000))
        /\ now = 0
        /\ paid = [c \in ChannelIds |-> <<N(0), N(0)>>]
        /\ finalized = [c \in ChannelIds |-> 0]
        /\ initiated_at = [c \in ChannelIds |-> 0]
        /\ proposals = [c \in ChannelIds |-> NoProposals]
        /\ last = OnMint("M", Tx("open_payment_channel", "c1", "A", "Ok", N(1000), N(0),
                                N(0), "B"))

\* a participant initiates the close, anyone tries to finalize it with a
\* registry and two destination accounts of its choice, and the clock
\* advances
MintNext ==
    \/ \E u \in Counterparties, s \in MintSplits :
          initiate_channel_close("c1", u, s[1], s[2], N(1))
    \/ \E u \in Users, g \in MintSettlements, w \in Builds :
          finalize_channel_close("c1", u, g[1], g[2], g[3], w)
    \/ \E d \in TickSteps : Tick(d)

SpecMint == MintInit /\ [][MintNext]_vars

(* ------------------------------- claims -------------------------------- *)

\* the transaction just committed or rejected was instruction `op` on channel c
Did(op, c) == last'.op = op /\ last'.channel_id = c

DidOk(op, c) == Did(op, c) /\ last'.res = "Ok"

\* the result of finalize_channel_close on the account ch of channel c at
\* clock t when it is handed the registry of the mint of the channel's vault
\* and the participants' own token accounts of that mint
FinalizeCheck(c, ch, t, w) ==
    finalize_channel_close_check(ch, RegistryAt(vault_mint[c]), VaultAt(c),
                                 TokenAccountAt(<<"own", ch.participant1, vault_mint[c]>>),
                                 TokenAccountAt(<<"own", ch.participant2, vault_mint[c]>>),
                                 t, w)

\* the results of finalize_channel_close on the account ch of channel c at
\* clock t over the registries and destination accounts of MintSettlements
FinalizeResults(c, ch, t) ==
    {finalize_channel_close_check(ch, RegistryAt(g[1]), VaultAt(c), TokenAccountAt(g[2]),
                                  TokenAccountAt(g[3]), t, w) :
         g \in MintSettlements \cup Settlements, w \in Builds}

\* what the user u holds of mint m in the ledger <<tk, ta>>: its own account
\* and its "token-account" account together
Holdings(tk, ta, u, m) == Plus(tk[u][m], ta[u][m].amount)

\* what the user u is due of the payouts a1 to participant1 and a2 to
\* participant2 of ch
Due(ch, u, a1, a2) ==
    Plus(IF u = ch.participant1 THEN a1 ELSE N(0),
         IF u = ch.participant2 THEN a2 ELSE N(0))

\* a step pays a1 and a2 out of the vault of channel c to the participants
\* of ch: every user holds what it held plus what it is due, no account
\* loses a token, and no account of another mint changes
PaysParticipants(c, ch, a1, a2) ==
    \A u \in Users :
        /\ Holdings(tokens', token_account', u, vault_mint[c])
              = Plus(Holdings(tokens, token_account, u, vault_mint[c]),
                     Due(ch, u, a1, a2))
        /\ Le(tokens[u][vault_mint[c]], tokens'[u][vault_mint[c]])
        /\ Le(token_account[u][vault_mint[c]].amount,
              token_account'[u][vault_mint[c]].amount)
        /\ \A m \in Mints :
              /\ token_account'[u][m].exists = token_account[u][m].exists
              /\ m # vault_mint[c]
                 => /\ tokens'[u][m] = tokens[u][m]
                    /\ token_account'[u][m] = token_account[u][m]

\* C1: in every reachable state of every channel, balance1 + balance2 is at
\* most total_deposited.
C1_BalancesWithinDeposit ==
    \A c \in ChannelIds :
        Le(Plus(channel[c].balance1, channel[c].balance2), channel[c].total_deposited)

\* a challenge was accepted whose split sums exactly to the deposit
C1_Witness ==
    /\ last.op = "challenge_channel_close" /\ last.res = "Ok"
    /\ Plus(channel["c1"].balance1, channel["c1"].balance2)
          = channel["c1"].total_deposited
    /\ Lt(N(0), channel["c1"].balance2)

\* C2: the nonce never decreases; a successful initiate_channel_close or
\* challenge_channel_close leaves it strictly greater, equal to the submitted
\* nonce; every other step leaves it unchanged.
C2_VersionMonotone ==
    [][\A c \in ChannelIds :
        /\ Le(channel[c].nonce, channel'[c].nonce)
        /\ IF DidOk("initiate_channel_close", c) \/ DidOk("challenge_channel_close", c)
           THEN /\ Lt(channel[c].nonce, channel'[c].nonce)
                /\ channel'[c].nonce = last'.n
           ELSE channel'[c].nonce = channel[c].nonce]_vars

\* a challenge raised the nonce above the one of the initiate before it
C2_Witness ==
    /\ last.op = "challenge_channel_close" /\ last.res = "Ok"
    /\ last.n = N(2) /\ channel["c1"].nonce = N(2)

\* C3: once a channel is Closed, every initiate, challenge, finalize and open
\* on its id fails and none of its fields changes again.
C3_ClosedIsFinal ==
    [][\A c \in ChannelIds :
        Status(channel[c]) = "Closed" =>
            /\ channel'[c].participant1 = channel[c].participant1
            /\ channel'[c].participant2 = channel[c].participant2
            /\ channel'[c].balance1 = channel[c].balance1
            /\ channel'[c].balance2 = channel[c].balance2
            /\ channel'[c].total_deposited = channel[c].total_deposited
            /\ channel'[c].nonce = channel[c].nonce
            /\ channel'[c].challenge_deadline = channel[c].challenge_deadline
            /\ Status(channel'[c]) = "Closed"
            /\ channel'[c] = channel[c]
            /\ (last'.channel_id = c
                /\ last'.op \in {"initiate_channel_close", "challenge_channel_close",
                                 "finalize_channel_close", "open_payment_channel"}
                => last'.res # "Ok")]_vars

\* an initiate_channel_close was rejected on a Closed channel
C3_Witness ==
    /\ Status(channel["c1"]) = "Closed"
    /\ last.op = "initiate_channel_close" /\ last.channel_id = "c1"
    /\ last.res = "ChannelNotActive"

\* C4: finalize_channel_close succeeds at most once per channel; one issued
\* after a successful one fails with ChannelNotActive and moves no tokens.
C4_FinalizeOnce ==
    [][\A c \in ChannelIds :
        /\ finalized'[c] <= 1
        /\ (finalized[c] >= 1 /\ Did("finalize_channel_close", c)
            => /\ last'.res = "ChannelNotActive"
               /\ vault' = vault /\ tokens' = tokens
               /\ token_account' = token_account /\ paid' = paid)]_vars

\* a second finalize_channel_close was rejected after a paying first one
C4_Witness ==
    /\ finalized["c1"] = 1 /\ Lt(N(0), Plus(paid["c1"][1], paid["c1"][2]))
    /\ last.op = "finalize_channel_close" /\ last.res = "ChannelNotActive"

\* the status changes a step may make
StatusSteps ==
    {<<"None", "None">>, <<"None", "Open">>, <<"Open", "Open">>,
     <<"Open", "Closing">>, <<"Closing", "Closing">>, <<"Closing", "Closed">>,
     <<"Closed", "Closed">>}

\* C5: the status only moves Open -> Closing -> Closed; finalize on an Open
\* channel fails; every Closed channel has challenge_deadline > 0 and
\* nonce >= 1.
C5_StatusOrder ==
    [][\A c \in ChannelIds :
        /\ <<Status(channel[c]), Status(channel'[c])>> \in StatusSteps
        /\ (Status(channel[c]) = "Open" /\ Did("finalize_channel_close", c)
            => last'.res # "Ok")
        /\ (Status(channel'[c]) = "Closed"
            => channel'[c].challenge_deadline > 0 /\ Le(N(1), channel'[c].nonce))]_vars

\* a channel went through Closing and was closed
C5_Witness ==
    /\ Status(channel["c1"]) = "Closed"
    /\ last.op = "finalize_channel_close" /\ last.res = "Ok"
    /\ channel["c1"].nonce = N(2)

\* C6: a successful finalize happens at a clock >= challenge_deadline, which
\* is >= the clock of the last successful initiate plus 86400; a finalize on
\* a Closing channel before the deadline fails with ChallengePeriodNotEnded
\* and changes nothing.
C6_FinalizeAfterWindow ==
    [][\A c \in ChannelIds :
        /\ (DidOk("finalize_channel_close", c)
            => /\ now' >= channel[c].challenge_deadline
               /\ now' >= initiated_at[c] + 86400)
        /\ (Did("finalize_channel_close", c) /\ Status(channel[c]) = "Closing"
              /\ now' < channel[c].challenge_deadline
            => /\ last'.res = "ChallengePeriodNotEnded"
               /\ UNCHANGED <<payment_channel, channel, vault, vault_mint, tokens,
                              token_account, now, paid, finalized, initiated_at>>)]_vars

\* a finalize issued at the clock of the initiate was rejected
C6_Witness ==
    /\ last.op = "finalize_channel_close" /\ last.res = "ChallengePeriodNotEnded"
    /\ Status(channel["c1"]) = "Closing"
    /\ now = initiated_at["c1"] /\ now > 0

\* C7: a successful open_payment_channel(participant2, deposit, channel_id)
\* signed by A creates the channel with participant1 = A, the given
\* participant2, balances (deposit, 0), total_deposited = deposit, nonce 0,
\* status Open (active, challenge_deadline 0), and moves exactly deposit
\* tokens from A's account (the one at the seeds ["token-account", A,
\* token_mint]) into the vault of that channel.
C7_OpenEffect ==
    [][\A c \in ChannelIds :
        DidOk("open_payment_channel", c) =>
            /\ channel'[c].participant1 = last'.signer
            /\ channel'[c].participant2 = last'.p2
            /\ channel'[c].balance1 = last'.a1
            /\ channel'[c].balance2 = N(0)
            /\ channel'[c].total_deposited = last'.a1
            /\ channel'[c].nonce = N(0)
            /\ channel'[c].is_active
            /\ channel'[c].challenge_deadline = 0
            /\ Status(channel'[c]) = "Open"
            /\ Status(channel[c]) = "None"
            /\ vault'[c] = Plus(vault[c], last'.a1)
            /\ vault_mint'[c] = last'.mint
            /\ token_account'[last'.signer][last'.mint].amount
                  = Minus(token_account[last'.signer][last'.mint].amount, last'.a1)
            /\ \A u \in Users, m \in Mints :
                  <<u, m>> # <<last'.signer, last'.mint>>
                  => token_account'[u][m] = token_account[u][m]
            /\ tokens' = tokens
            /\ \A d \in ChannelIds \ {c} :
                  vault'[d] = vault[d] /\ vault_mint'[d] = vault_mint[d]]_vars

\* A opened c1 with B and a deposit of 1000
C7_Witness ==
    /\ last = OnMint("M", Tx("open_payment_channel", "c1", "A", "Ok", N(1000), N(0),
                             N(0), "B"))
    /\ vault["c1"] = N(1000)
    /\ token_account["A"]["M"].amount = N(InitialTokens - 1000)

\* C8: open_payment_channel on a channel id in use is rejected and leaves the
\* channels and vaults unchanged; an id stays bound to its channel.
C8_IdInUse ==
    [][\A c \in ChannelIds :
        /\ (Did("open_payment_channel", c) /\ channel[c].exists
            => last'.res # "Ok" /\ channel' = channel /\ vault' = vault
               /\ tokens' = tokens /\ token_account' = token_account)
        /\ (channel[c].exists
            => /\ channel'[c].exists
               /\ channel'[c].channel_id = channel[c].channel_id
               /\ channel'[c].participant1 = channel[c].participant1
               /\ channel'[c].participant2 = channel[c].participant2)]_vars

\* an open on the id of a Closing channel was rejected
C8_Witness ==
    /\ last.op = "open_payment_channel" /\ last.channel_id = "c1"
    /\ last.res = "AccountAlreadyInUse"
    /\ Status(channel["c1"]) = "Closing"

\* C9: every channel has participant1 # participant2 and total_deposited > 0;
\* open_payment_channel is rejected when participant2 is the signer and when
\* the deposit is 0.
C9_DistinctAndFunded ==
    /\ \A c \in ChannelIds :
          channel[c].exists =>
              /\ channel[c].participant1 # channel[c].participant2
              /\ Lt(N(0), channel[c].total_deposited)
    /\ \A c \in ChannelIds, u \in Users, p \in Users, d \in Deposits, m \in Mints :
          (p = u \/ d = N(0)) => open_payment_channel_check(c, u, p, d, m) # "Ok"
    /\ (last.op = "open_payment_channel"
          /\ last.res \in {"CannotOpenChannelWithSelf", "DepositMustBeGreaterThanZero"}
        => ~channel[last.channel_id].exists /\ vault[last.channel_id] = N(0))

\* an open naming the signer as counterparty was rejected
C9_Witness ==
    /\ last.op = "open_payment_channel" /\ last.res = "CannotOpenChannelWithSelf"
    /\ ~channel["c1"].exists /\ token_account["A"]["M"].amount = N(InitialTokens)

\* C10: a successful initiate_channel_close(final1, final2, nonce) sets the
\* balances and nonce to the submitted values, the status to Closing and
\* challenge_deadline to the clock plus 86400.
C10_InitiateEffect ==
    [][\A c \in ChannelIds :
        DidOk("initiate_channel_close", c) =>
            /\ channel'[c].balance1 = last'.a1
            /\ channel'[c].balance2 = last'.a2
            /\ channel'[c].nonce = last'.n
            /\ Status(channel'[c]) = "Closing"
            /\ channel'[c].challenge_deadline = now + 86400
            /\ now' = now]_vars

\* a second initiate moved the deadline to a later clock plus the window
C10_Witness ==
    /\ last = Tx("initiate_channel_close", "c1", "B", "Ok", N(400), N(600), N(2), "")
    /\ now = 86400 /\ channel["c1"].challenge_deadline = 172800

\* C11: initiate_channel_close may succeed repeatedly on a channel that is
\* not Closed, and on a Closing channel challenge_deadline is the clock of
\* the last successful initiate plus 86400: each initiate resets it, nothing
\* else moves it.
C11_DeadlineAnchored ==
    \A c \in ChannelIds :
        /\ (Status(channel[c]) = "Closing"
            => channel[c].challenge_deadline = initiated_at[c] + 86400)
        /\ (last.op = "initiate_channel_close" /\ last.res = "Ok" /\ last.channel_id = c
            => /\ Status(channel[c]) = "Closing"
               /\ initiated_at[c] = now
               /\ channel[c].challenge_deadline = now + 86400)

\* a second initiate, half a window after the first, reset the deadline
C11_Witness ==
    /\ last.op = "initiate_channel_close" /\ last.res = "Ok" /\ last.n = N(2)
    /\ initiated_at["c1"] = 43200
    /\ channel["c1"].challenge_deadline = 43200 + 86400

\* C12: a successful challenge_channel_close sets balance1, balance2 and the
\* nonce to the submitted values and leaves challenge_deadline, the status,
\* total_deposited and both participants as they were.
C12_ChallengeFrame ==
    [][\A c \in ChannelIds :
        DidOk("challenge_channel_close", c) =>
            /\ channel'[c].balance1 = last'.a1
            /\ channel'[c].balance2 = last'.a2
            /\ channel'[c].nonce = last'.n
            /\ channel'[c].challenge_deadline = channel[c].challenge_deadline
            /\ Status(channel'[c]) = Status(channel[c])
            /\ channel'[c].total_deposited = channel[c].total_deposited
            /\ channel'[c].participant1 = channel[c].participant1
            /\ channel'[c].participant2 = channel[c].participant2
            /\ initiated_at'[c] = initiated_at[c]]_vars

\* a challenge half a window after the initiate left the deadline of the
\* initiate in place
C12_Witness ==
    /\ last = Tx("challenge_channel_close", "c1", "B", "Ok", N(600), N(390), N(2), "")
    /\ now = 43200 /\ initiated_at["c1"] = 0
    /\ channel["c1"].challenge_deadline = 86400

\* C13: challenge_channel_close is accepted only on a Closing channel with
\* the clock before challenge_deadline; on an Open channel it fails with
\* NoActiveChallengePeriod, on a Closing channel at or after the deadline
\* with ChallengePeriodExpired, and the balances and nonce stay unchanged.
C13_ChallengeWindow ==
    [][\A c \in ChannelIds :
        Did("challenge_channel_close", c) =>
            /\ (last'.res = "Ok"
                => /\ Status(channel[c]) = "Closing"
                   /\ now' < channel[c].challenge_deadline)
            /\ (Status(channel[c]) = "Open"
                => last'.res = "NoActiveChallengePeriod" /\ channel' = channel)
            /\ (Status(channel[c]) = "Closing" /\ now' >= channel[c].challenge_deadline
                => last'.res = "ChallengePeriodExpired" /\ channel' = channel)]_vars

\* a challenge issued exactly at the deadline was rejected as expired
C13_Witness ==
    /\ last.op = "challenge_channel_close" /\ last.res = "ChallengePeriodExpired"
    /\ Status(channel["c1"]) = "Closing"
    /\ now = channel["c1"].challenge_deadline

\* C14: an initiate_channel_close or challenge_channel_close whose nonce is
\* at most the channel's nonce is rejected in every state, for every signer
\* and split, at every clock.
C14_StaleVersionRejected ==
    \A c \in ChannelIds, u \in Users, s \in Splits :
        \A n \in Nonces \cup {channel[c].nonce} :
            Le(n, channel[c].nonce)
            => /\ initiate_channel_close_check(channel[c], u, s[1], s[2], n) # "Ok"
               /\ challenge_channel_close_check(channel[c], u, s[1], s[2], n, now)
                     # "Ok"

\* after the window had elapsed, an initiate with a stale nonce was rejected
C14_Witness ==
    /\ last.op = "initiate_channel_close" /\ last.res = "NonceMustBeGreater"
    /\ Status(channel["c1"]) = "Closing" /\ channel["c1"].nonce = N(2)
    /\ now >= channel["c1"].challenge_deadline

\* C15: an initiate or challenge signed by neither participant is rejected;
\* in every step that changes a channel's balances, nonce or
\* challenge_deadline the signer is one of the channel's two participants.
C15_ParticipantsOnly ==
    [][\A c \in ChannelIds :
        /\ (DidOk("initiate_channel_close", c) \/ DidOk("challenge_channel_close", c)
            => last'.signer \in {channel[c].participant1, channel[c].participant2})
        /\ (Did("initiate_channel_close", c) /\ last'.res = "NotChannelParticipant"
            => UNCHANGED <<payment_channel, channel, vault, vault_mint, tokens,
                           token_account, now, paid, finalized, initiated_at>>)
        /\ (\/ channel'[c].balance1 # channel[c].balance1
            \/ channel'[c].balance2 # channel[c].balance2
            \/ channel'[c].nonce # channel[c].nonce
            \/ channel'[c].challenge_deadline # channel[c].challenge_deadline
            => /\ last'.res = "Ok" /\ last'.channel_id = c
               /\ last'.signer \in {channel'[c].participant1, channel'[c].participant2})]_vars

\* an initiate signed by an outsider was rejected on an Open channel
C15_Witness ==
    /\ last.op = "initiate_channel_close" /\ last.res = "NotChannelParticipant"
    /\ Status(channel["c1"]) = "Open"

\* C16: a successful finalize_channel_close transfers balance1 from the
\* vault to participant1 and balance2 to participant2 (to token accounts of
\* theirs, nothing for a balance of 0), reduces the vault by balance1 +
\* balance2, sets the status to Closed and leaves the balances, nonce,
\* total_deposited and challenge_deadline unchanged.
C16_FinalizeEffect ==
    [][\A c \in ChannelIds :
        DidOk("finalize_channel_close", c) =>
            LET ch == channel[c] IN
            /\ PaysParticipants(c, ch, ch.balance1, ch.balance2)
            /\ vault'[c] = Minus(vault[c], Plus(ch.balance1, ch.balance2))
            /\ vault_mint' = vault_mint
            /\ last'.a1 = ch.balance1 /\ last'.a2 = ch.balance2
            /\ paid'[c] = <<Plus(paid[c][1], ch.balance1), Plus(paid[c][2], ch.balance2)>>
            /\ Status(ch) = "Closing" /\ Status(channel'[c]) = "Closed"
            /\ channel'[c].balance1 = ch.balance1
            /\ channel'[c].balance2 = ch.balance2
            /\ channel'[c].nonce = ch.nonce
            /\ channel'[c].total_deposited = ch.total_deposited
            /\ channel'[c].challenge_deadline = ch.challenge_deadline]_vars

\* a finalize paid 600 to participant1, into its "token-account" account,
\* and 390 to participant2, into its own account, and left the fee of 10 in
\* the vault
C16_Witness ==
    /\ last = OnMint("M", Tx("finalize_channel_close", "c1", "C", "Ok", N(600), N(390),
                             N(10), ""))
    /\ token_account["A"]["M"].amount = N(InitialTokens - 1000 + 600)
    /\ tokens["A"]["M"] = N(0) /\ tokens["B"]["M"] = N(390)
    /\ vault["c1"] = N(10)

\* floor(total_deposited * rate / 10000), in the naturals
FloorFee(total_deposited, rate) == Quot(Times(total_deposited, N(rate)), N(10000))

\* the split of the channel c plus the fee at the rate of the registry of
\* its mint exceeds the deposit (the fee being defined: the product is a u64)
SplitAndFeeExceedDeposit(c) ==
    LET ch == channel[c]
        rate == RegistryAt(vault_mint[c]).channel_fee_rate
    IN
    /\ Le(Times(ch.total_deposited, N(rate)), U64_MAX)
    /\ Lt(ch.total_deposited,
          Plus(Plus(ch.balance1, ch.balance2), FloorFee(ch.total_deposited, rate)))

\* C17: finalize_channel_close on a Closing channel fails with
\* InsufficientFunds, leaving the channel Closing and the vault untouched,
\* whenever balance1 + balance2 + fee > total_deposited.
C17_InsufficientEscrow ==
    [][\A c \in ChannelIds :
        Did("finalize_channel_close", c) /\ Status(channel[c]) = "Closing"
          /\ SplitAndFeeExceedDeposit(c)
        => last'.res = "InsufficientFunds" /\ channel' = channel /\ vault' = vault]_vars

\* C18: the fee of finalize_channel_close is floor(total_deposited * rate /
\* 10000) whenever the product stays in the u64 range, the same for the same
\* deposit and rate whatever the split, and at most total_deposited when the
\* rate is at most 100.
C18_FeeIsFloor ==
    LET t == channel["c1"].total_deposited
        r == RegistryAt(vault_mint["c1"]).channel_fee_rate
        f == settlement_fee(t, r)
    IN
    /\ (Le(Times(t, N(r)), U64_MAX)
        => /\ f # None
           /\ Le(Times(f, N(10000)), Times(t, N(r)))
           /\ Lt(Times(t, N(r)), Times(Plus(f, N(1)), N(10000))))
    /\ (f # None /\ r <= 100 => Le(f, t))
    /\ (last.op = "finalize_channel_close" /\ last.res = "Ok"
        => /\ Le(Times(last.n, N(10000)),
                 Times(t, N(RegistryAt(last.mint).channel_fee_rate)))
           /\ Lt(Times(t, N(RegistryAt(last.mint).channel_fee_rate)),
                 Times(Plus(last.n, N(1)), N(10000))))

\* a finalize of a deposit of 1310 at 100 bps computed the fee 13 and paid
\* out the 1297 that the split left
C18_Witness ==
    /\ last.op = "finalize_channel_close" /\ last.res = "Ok"
    /\ channel["c1"].total_deposited = N(1310)
    /\ payment_channel["M"].channel_fee_rate = 100
    /\ last.n = N(13) /\ last.a1 = N(1297)

\* C19: once the registry exists its fee rate changes only by a successful
\* set_channel_fee_rate signed by the registry's authority with a rate of at
\* most 100; a call with a higher rate (150) or by another signer is rejected
\* and changes neither the rate nor the authority; no step changes the
\* authority.
C19_RateByAuthorityOnly ==
    [][\A m \in Mints :
        payment_channel[m].exists
        => /\ payment_channel'[m].exists
           /\ payment_channel'[m].authority = payment_channel[m].authority
           /\ payment_channel'[m].token_mint = payment_channel[m].token_mint
           /\ (payment_channel'[m].channel_fee_rate # payment_channel[m].channel_fee_rate
               => /\ DidOk("set_channel_fee_rate", "") /\ last'.mint = m
                  /\ last'.signer = payment_channel[m].authority
                  /\ last'.a1 <= 100
                  /\ payment_channel'[m].channel_fee_rate = last'.a1)
           /\ (Did("set_channel_fee_rate", "") /\ last'.res # "Ok"
               => UNCHANGED payment_channel)
           /\ \A u \in Users, r \in {0, 50, 100, 101, 150, 65535} :
                 (r > 100 \/ u # payment_channel[m].authority)
                     => set_channel_fee_rate_check(payment_channel[m], u, r) # "Ok"]_vars

\* a signer other than the authority was turned away and the rate set at
\* creation stands
C19_Witness ==
    /\ last.op = "set_channel_fee_rate" /\ last.res = "ConstraintHasOne"
    /\ payment_channel["M"].exists /\ payment_channel["M"].authority = "B"
    /\ payment_channel["M"].channel_fee_rate = 0

\* C20: the fee rate of an existing registry is between 0 and 100.
C20_RateCapped ==
    \A m \in Mints :
        payment_channel[m].exists => payment_channel[m].channel_fee_rate \in 0 .. 100

\* C22: the vault of a channel holds total_deposited while the channel is
\* Open or Closing, and total_deposited - balance1 - balance2 once it is
\* Closed.
C22_VaultMatchesDeposit ==
    \A c \in ChannelIds :
        /\ Status(channel[c]) \in {"Open", "Closing"}
           => vault[c] = channel[c].total_deposited
        /\ Status(channel[c]) = "Closed"
           => vault[c] = Minus(Minus(channel[c].total_deposited, channel[c].balance1),
                               channel[c].balance2)

\* a channel of 1000 was closed on the split <<600, 390>>: 10 stay in the vault
C22_Witness ==
    /\ Status(channel["c1"]) = "Closed"
    /\ channel["c1"].total_deposited = N(1000)
    /\ channel["c1"].balance1 = N(600) /\ channel["c1"].balance2 = N(390)
    /\ vault["c1"] = N(10)

\* C23: the vault of a channel goes down only in a successful
\* finalize_channel_close of that channel, by the two amounts transferred,
\* and these go to the channel's participant1 and participant2 and to
\* nobody else.
C23_VaultOutflow ==
    [][\A c \in ChannelIds :
          Lt(vault'[c], vault[c])
          => /\ DidOk("finalize_channel_close", c)
             /\ Minus(vault[c], vault'[c]) = Plus(last'.a1, last'.a2)
             /\ PaysParticipants(c, channel[c], last'.a1, last'.a2)]_vars

\* c2 was finalized on <<400, 600>> by a third party while c1 is still open:
\* the vault of c2 is empty and that of c1 holds its deposit
C23_Witness ==
    /\ last.op = "finalize_channel_close" /\ last.res = "Ok"
    /\ last.channel_id = "c2" /\ last.signer = "C"
    /\ last.a1 = N(400) /\ last.a2 = N(600)
    /\ vault["c2"] = N(0) /\ Holdings(tokens, token_account, "C", "M") = N(0)
    /\ Status(channel["c1"]) = "Open" /\ vault["c1"] = N(1000)

\* C24: once a channel account exists, no step changes its total_deposited,
\* participant1, participant2 or channel_id, and it stays in existence.
C24_OpenFieldsFixed ==
    [][\A c \in ChannelIds :
          channel[c].exists
          => /\ channel'[c].exists
             /\ channel'[c].total_deposited = channel[c].total_deposited
             /\ channel'[c].participant1 = channel[c].participant1
             /\ channel'[c].participant2 = channel[c].participant2
             /\ channel'[c].channel_id = channel[c].channel_id]_vars

\* A's channel with B went through initiate, a challenge that left 10 in the
\* vault, and finalize, and still carries what open_payment_channel wrote
C24_Witness ==
    /\ Status(channel["c1"]) = "Closed" /\ channel["c1"].nonce = N(2)
    /\ proposals["c1"].latest = <<N(600), N(390), N(2)>>
    /\ channel["c1"].total_deposited = N(1000)
    /\ channel["c1"].participant1 = "A" /\ channel["c1"].participant2 = "B"
    /\ channel["c1"].channel_id = "c1"
    /\ last.op = "set_channel_fee_rate" /\ last.res = "Ok"

\* C25: no instruction succeeds on a sum that wrapped around: a successful
\* finalize_channel_close has balance1 + balance2 + fee <= total_deposited
\* in unbounded arithmetic, and an accepted initiate_channel_close or
\* challenge_channel_close has a split whose true sum is at most
\* total_deposited.
C25_NoWrappedSuccess ==
    \A c \in ChannelIds :
        /\ last.op = "finalize_channel_close" /\ last.res = "Ok" /\ last.channel_id = c
           => Le(Plus(Plus(channel[c].balance1, channel[c].balance2), last.n),
                 channel[c].total_deposited)
        /\ last.op \in {"initiate_channel_close", "challenge_channel_close"}
           /\ last.res = "Ok" /\ last.channel_id = c
           => Le(Plus(last.a1, last.a2), channel[c].total_deposited)

UpdateKinds == {"initiate_channel_close", "challenge_channel_close"}

\* the result of the update instruction `kind` on the channel account ch
UpdateCheck(kind, ch, signer, split, nonce) ==
    IF kind = "initiate_channel_close"
    THEN initiate_channel_close_check(ch, signer, split[1], split[2], nonce)
    ELSE challenge_channel_close_check(ch, signer, split[1], split[2], nonce, now)

\* the channel account the update instruction `kind` writes
UpdateWrite(kind, ch, split, nonce) ==
    IF kind = "initiate_channel_close"
    THEN initiate_channel_close_update(ch, split[1], split[2], nonce, now)
    ELSE challenge_channel_close_update(ch, split[1], split[2], nonce)

\* ch carries the split and the nonce of the update
Carries(ch, split, nonce) ==
    ch.balance1 = split[1] /\ ch.balance2 = split[2] /\ ch.nonce = nonce

\* two updates that are both valid on the closing channel, v1 < v2: committed
\* as v2, v1 the first is accepted and the second is rejected for its nonce;
\* committed as v1, v2 both are accepted; either way the channel carries v2
BothOrdersEndWithHigher(c) ==
    \A k1 \in UpdateKinds, k2 \in UpdateKinds,
       u1 \in Counterparties, u2 \in Counterparties,
       s1 \in RaceSplits, s2 \in RaceSplits, v1 \in RaceNonces, v2 \in RaceNonces :
        /\ Lt(v1, v2)
        /\ Status(channel[c]) = "Closing" /\ now < channel[c].challenge_deadline
        /\ UpdateCheck(k1, channel[c], u1, s1, v1) = "Ok"
        /\ UpdateCheck(k2, channel[c], u2, s2, v2) = "Ok"
        => /\ UpdateCheck(k1, UpdateWrite(k2, channel[c], s2, v2), u1, s1, v1)
                  \in {"NonceMustBeGreater", "NewNonceMustBeGreater"}
           /\ Carries(UpdateWrite(k2, channel[c], s2, v2), s2, v2)
           /\ UpdateCheck(k2, UpdateWrite(k1, channel[c], s1, v1), u2, s2, v2) = "Ok"
           /\ Carries(UpdateWrite(k2, UpdateWrite(k1, channel[c], s1, v1), s2, v2),
                      s2, v2)

\* C26: of two valid updates of a closing channel with nonces v1 < v2 that
\* are submitted within the window, the channel ends with v2 and its split
\* in either commit order (v2, v1: v1 is rejected; v1, v2: both accepted);
\* each transaction is applied whole to the account the previous one left,
\* and an accepted update never lowers the nonce.
C26_HigherVersionWins ==
    [][/\ BothOrdersEndWithHigher("c1")
       /\ \A k \in UpdateKinds :
             /\ DidOk(k, "c1")
                => /\ Lt(channel["c1"].nonce, last'.n)
                   /\ Carries(channel'["c1"], <<last'.a1, last'.a2>>, last'.n)
             /\ Did(k, "c1") /\ last'.res # "Ok" => UNCHANGED channel]_vars

\* the update at nonce 3 was committed first and the one at nonce 2, sent in
\* the same window, was then rejected: the channel keeps the split of nonce 3
C26_Witness ==
    /\ last.op = "challenge_channel_close" /\ last.res = "NewNonceMustBeGreater"
    /\ channel["c1"].nonce = N(3)
    /\ proposals["c1"].latest = <<N(400), N(600), N(3)>>
    /\ Carries(channel["c1"], <<N(400), N(600)>>, N(3))
    /\ now < channel["c1"].challenge_deadline

\* the instructions that name a channel
PerChannelOps ==
    {"open_payment_channel", "initiate_channel_close", "challenge_channel_close",
     "finalize_channel_close"}

\* a transaction on channel x leaves the account and the vault of every
\* other channel as they were
OtherChannelsUntouched(x) ==
    last'.op \in PerChannelOps /\ last'.channel_id = x
    => \A y \in ChannelIds \ {x} :
          channel'[y] = channel[y] /\ vault'[y] = vault[y]
              /\ vault_mint'[y] = vault_mint[y]

\* the result of a transaction on channel x and what it writes to x follow
\* from the account and vault of x, the registry, the clock, the signer's
\* token account and the arguments (channels are opened on the funded mint;
\* an open without its registry fails before the channel account is looked at)
OutcomeFromOwnState(x) ==
    /\ Did("open_payment_channel", x)
       => /\ last'.res = "AccountAlreadyInUse"
             <=> channel[x].exists /\ \A m \in FundedMints : RegistryAt(m).exists
          /\ last'.res = "Ok"
             => /\ Le(last'.a1, token_account[last'.signer][last'.mint].amount)
                /\ channel'[x] = open_payment_channel_init(x, last'.signer, last'.p2,
                                                           last'.a1, now)
                /\ vault'[x] = Plus(vault[x], last'.a1)
    /\ Did("initiate_channel_close", x)
       => /\ \E u \in Users, s \in TwoSplits, n \in TwoNonces :
                last'.res = initiate_channel_close_check(channel[x], u, s[1], s[2], n)
          /\ last'.res = "Ok"
             => /\ initiate_channel_close_check(channel[x], last'.signer, last'.a1,
                                                last'.a2, last'.n) = "Ok"
                /\ channel'[x] = initiate_channel_close_update(channel[x], last'.a1,
                                                               last'.a2, last'.n, now)
    /\ Did("challenge_channel_close", x)
       => /\ \E u \in Users, s \in TwoSplits, n \in TwoNonces :
                last'.res = challenge_channel_close_check(channel[x], u, s[1], s[2],
                                                          n, now)
          /\ last'.res = "Ok"
             => /\ challenge_channel_close_check(channel[x], last'.signer, last'.a1,
                                                 last'.a2, last'.n, now) = "Ok"
                /\ channel'[x] = challenge_channel_close_update(channel[x], last'.a1,
                                                                last'.a2, last'.n)
    /\ Did("finalize_channel_close", x)
       => /\ \E g \in TwoSettlements, w \in Builds :
                last'.res = finalize_channel_close_check(
                                channel[x], RegistryAt(g[1]), VaultAt(x),
                                TokenAccountAt(g[2]), TokenAccountAt(g[3]), now, w)
          /\ last'.res = "Ok"
             => /\ channel'[x] = finalize_channel_close_update(channel[x])
                /\ vault'[x] = Minus(Minus(vault[x], payout1(channel[x])),
                                    payout2(channel[x]))

\* C27: an open, initiate, challenge or finalize on one channel leaves every
\* field and the vault of every other channel unchanged, and its result and
\* effect are those its own account and vault determine, whatever state the
\* other channel is in and however the transactions on the two interleave.
C27_ChannelsIndependent ==
    [][\A x \in TwoIds : OtherChannelsUntouched(x) /\ OutcomeFromOwnState(x)]_vars

\* c2 (opened by B with A) was challenged while c1 (opened by A with B) had
\* already been closed and paid out
C27_Witness ==
    /\ last.op = "challenge_channel_close" /\ last.res = "Ok"
    /\ last.channel_id = "c2"
    /\ channel["c2"].participant1 = "B" /\ Status(channel["c2"]) = "Closing"
    /\ vault["c2"] = N(1000)
    /\ channel["c1"].participant1 = "A" /\ Status(channel["c1"]) = "Closed"
    /\ vault["c1"] = N(0) /\ paid["c1"] = <<N(400), N(600)>>

\* C28: from the first accepted initiate_channel_close on, the channel
\* carries the accepted split of the highest nonce, which is also the one
\* accepted last, and what a successful finalize_channel_close has paid is
\* that split.
C28_HighestProposalPaid ==
    \A c \in ChannelIds :
        /\ Status(channel[c]) \in {"Closing", "Closed"}
           => /\ proposals[c].highest = proposals[c].latest
              /\ proposals[c].highest
                     = <<channel[c].balance1, channel[c].balance2, channel[c].nonce>>
        /\ finalized[c] > 0
           => paid[c] = <<proposals[c].highest[1], proposals[c].highest[2]>>
        /\ last.op = "finalize_channel_close" /\ last.res = "Ok" /\ last.channel_id = c
           => <<last.a1, last.a2>>
                  = <<proposals[c].highest[1], proposals[c].highest[2]>>

\* the close was finalized on <<0, 600>>, the split accepted at nonce 2, not
\* on any split of nonce 1
C28_Witness ==
    /\ last.op = "finalize_channel_close" /\ last.res = "Ok"
    /\ last.channel_id = "c1"
    /\ proposals["c1"].highest = <<N(0), N(600), N(2)>>
    /\ paid["c1"] = <<N(0), N(600)>>
    /\ tokens["B"]["M"] = N(600) /\ vault["c1"] = N(400)

RECURSIVE SumOver(_, _)
\* the sum of f over the set S
SumOver(f, S) ==
    IF S = {} THEN N(0)
    ELSE LET x == CHOOSE y \in S : TRUE IN Plus(f[x], SumOver(f, S \ {x}))

\* C29: for every channel the vault plus what was paid to participant1 and
\* to participant2 is total_deposited, what was paid never exceeds it, and
\* the tokens in the users' accounts and the vaults together are the tokens
\* there were at the start.
C29_FundsConserved ==
    /\ \A c \in ChannelIds :
          /\ Plus(Plus(vault[c], paid[c][1]), paid[c][2]) = channel[c].total_deposited
          /\ Le(Plus(paid[c][1], paid[c][2]), channel[c].total_deposited)
          /\ Le(N(0), vault[c])
    /\ Plus(Plus(SumOver([u \in Users |-> tokens[u]["M"]], Users),
                 SumOver([u \in Users |-> token_account[u]["M"].amount], Users)),
            SumOver(vault, ChannelIds))
           = N(InitialTokens * Cardinality(Funded))
    /\ \A u \in Users, m \in Mints \ FundedMints :
          tokens[u][m] = N(0) /\ token_account[u][m].amount = N(0)
    /\ \A c \in ChannelIds : channel[c].exists => vault_mint[c] \in FundedMints

\* a second finalize of the closed channel was turned away: 990 of the 1000
\* are with the participants and 10 in the vault
C29_Witness ==
    /\ last.op = "finalize_channel_close" /\ last.res = "ChannelNotActive"
    /\ finalized["c1"] = 1
    /\ paid["c1"] = <<N(600), N(390)>> /\ vault["c1"] = N(10)
    /\ Holdings(tokens, token_account, "A", "M") = N(InitialTokens - 1000 + 600)
    /\ tokens["B"]["M"] = N(390)

\* the split of ch plus the fee of its deposit at `rate`
SplitAndFee(ch, rate) ==
    Plus(Plus(ch.balance1, ch.balance2), FloorFee(ch.total_deposited, rate))

\* on a Closing channel whose window has elapsed, finalize_channel_close
\* handed an existing registry and the participants' accounts of its mint
\* is refused for the fee exactly when the split plus the fee at the rate
\* that registry holds now exceeds the deposit
JudgedByCurrentRate(c) ==
    LET ch == channel[c] IN
    Status(ch) = "Closing" /\ now >= ch.challenge_deadline
    => \A m \in Mints, w \in Builds :
          payment_channel[m].exists
          => (finalize_channel_close_check(
                  ch, payment_channel[m], VaultAt(c),
                  TokenAccountAt(<<"own", ch.participant1, m>>),
                  TokenAccountAt(<<"own", ch.participant2, m>>), now, w)
                = "InsufficientFunds"
              <=> Lt(ch.total_deposited,
                     SplitAndFee(ch, payment_channel[m].channel_fee_rate)))

\* C30: set_channel_fee_rate stores the new rate and changes no channel
\* account, vault or token account, whatever state the channels are in; a
\* finalize_channel_close is judged and its fee computed by the rate the
\* registry it is handed holds when it runs, not by the rate that was in
\* force when the channel was opened and its close initiated; and one that
\* pays anything out was handed the registry of the mint of the vault.
C30_FeeAtFinalizeRate ==
    [][/\ Did("set_channel_fee_rate", "")
          => /\ UNCHANGED <<channel, vault, vault_mint, tokens, token_account, paid,
                            finalized>>
             /\ last'.res = "Ok"
                => payment_channel'[last'.mint].channel_fee_rate = last'.a1
       /\ \A c \in CloseIds :
             LET ch == channel[c] IN
             /\ JudgedByCurrentRate(c)
             /\ DidOk("finalize_channel_close", c)
                => /\ payment_channel[last'.mint].exists
                   /\ last'.n = FloorFee(ch.total_deposited,
                                         payment_channel[last'.mint].channel_fee_rate)
                   /\ \/ Le(SplitAndFee(ch, payment_channel[last'.mint].channel_fee_rate),
                            ch.total_deposited)
                      \/ Lt(U64_MAX,
                            SplitAndFee(ch, payment_channel[last'.mint].channel_fee_rate))
                   /\ Lt(N(0), Plus(last'.a1, last'.a2)) => last'.mint = vault_mint[c]
             /\ Did("finalize_channel_close", c) /\ last'.res = "InsufficientFunds"
                => \E m \in Mints :
                      /\ payment_channel[m].exists
                      /\ Lt(ch.total_deposited,
                            SplitAndFee(ch, payment_channel[m].channel_fee_rate))]_vars

\* the close of a deposit of 1310 was initiated at rate 0 with 13 left over;
\* the rate was then set to 100 and finalize computed the fee 13
C30_Witness ==
    /\ last.op = "finalize_channel_close" /\ last.res = "Ok" /\ last.mint = "M"
    /\ payment_channel["M"].channel_fee_rate = 100
    /\ channel["c1"].total_deposited = N(1310) /\ channel["c1"].balance1 = N(1297)
    /\ last.n = N(13) /\ vault["c1"] = N(13)

\* C31: the fee is transferred to nobody: right after a successful
\* finalize_channel_close the vault holds total_deposited - balance1 -
\* balance2, which is at least the fee the instruction computed; every
\* instruction on a Closed channel fails, and the vault of a Closed channel
\* holds that remainder in every later state.
C31_FeeStaysInVault ==
    \A c \in ChannelIds :
        /\ last.op = "finalize_channel_close" /\ last.res = "Ok" /\ last.channel_id = c
           => /\ vault[c] = Minus(Minus(channel[c].total_deposited,
                                        channel[c].balance1), channel[c].balance2)
              /\ Le(last.n, vault[c])
        /\ Status(channel[c]) = "Closed"
           => /\ vault[c] = Minus(Minus(channel[c].total_deposited,
                                        channel[c].balance1), channel[c].balance2)
              /\ \A u \in Users, p \in Users, d \in Deposits, m \in Mints :
                    open_payment_channel_check(c, u, p, d, m) # "Ok"
              /\ \A u \in Users, sp \in Splits, n \in Nonces \cup {N(MaxNonce + 1)} :
                    /\ initiate_channel_close_check(channel[c], u, sp[1], sp[2], n) # "Ok"
                    /\ challenge_channel_close_check(channel[c], u, sp[1], sp[2], n, now)
                           # "Ok"
              /\ "Ok" \notin FinalizeResults(c, channel[c], now)

\* in a Closing state of ch whose nonce is below the largest u64, either
\* participant's initiate_channel_close at the next nonce is accepted, sets
\* the deadline to 24 hours from now, and finalize_channel_close on what it
\* wrote fails for the window
ResetAvailable(c) ==
    LET ch == channel[c]
        again == initiate_channel_close_update(ch, ch.balance1, ch.balance2,
                                               Plus(ch.nonce, N(1)), now)
    IN
    Status(ch) = "Closing" /\ Lt(ch.nonce, U64_MAX)
    => /\ \A u \in {ch.participant1, ch.participant2} :
             initiate_channel_close_check(ch, u, ch.balance1, ch.balance2,
                                          Plus(ch.nonce, N(1))) = "Ok"
       /\ again.challenge_deadline = now + CHALLENGE_PERIOD
       /\ Status(again) = "Closing"
       /\ \A w \in Builds : FinalizeCheck(c, again, now, w) = "ChallengePeriodNotEnded"

\* C32: nothing caps the resets of the window: in every Closing state with
\* a nonce below the maximum a participant's initiate_channel_close at a
\* higher nonce succeeds again, and every successful one on a Closing
\* channel, however many came before and whether or not the old deadline has
\* passed, moves the deadline to now + 24 hours and keeps the channel
\* Closing, so that a finalize_channel_close has to wait again.
C32_ResetsUncapped ==
    [][\A c \in CloseIds :
          /\ ResetAvailable(c)
          /\ DidOk("initiate_channel_close", c) /\ Status(channel[c]) = "Closing"
             => /\ channel'[c].challenge_deadline = now + CHALLENGE_PERIOD
                /\ Status(channel'[c]) = "Closing"
                /\ \A w \in Builds :
                      FinalizeCheck(c, channel[c], now, w)' = "ChallengePeriodNotEnded"]_vars

\* the close initiated at clock 0 (deadline 86400) was initiated again twice;
\* at clock 86400 a finalize is still turned away
C32_Witness ==
    /\ last.op = "finalize_channel_close" /\ last.res = "ChallengePeriodNotEnded"
    /\ Status(channel["c1"]) = "Closing"
    /\ channel["c1"].nonce = N(3)
    /\ now >= CHALLENGE_PERIOD
    /\ channel["c1"].challenge_deadline = now + CHALLENGE_PERIOD

\* on an Open channel either participant's initiate_channel_close with a
\* split that leaves room for the fee is accepted
AnySplitAccepted(c) ==
    LET ch == channel[c]
        fee == FloorFee(ch.total_deposited, RegistryAt(vault_mint[c]).channel_fee_rate)
    IN
    Status(ch) = "Open"
    => \A u \in {ch.participant1, ch.participant2}, s \in SoloSplits :
          Le(Plus(Plus(s[1], s[2]), fee), ch.total_deposited)
          => initiate_channel_close_check(ch, u, s[1], s[2], Plus(ch.nonce, N(1)))
                 = "Ok"

\* on a Closing channel whose window has elapsed and whose split leaves
\* room for the fee, finalize_channel_close is accepted
ElapsedSplitFinalizes(c) ==
    LET ch == channel[c]
        fee == FloorFee(ch.total_deposited, RegistryAt(vault_mint[c]).channel_fee_rate)
    IN
    /\ Status(ch) = "Closing" /\ now >= ch.challenge_deadline
    /\ Le(Plus(Plus(ch.balance1, ch.balance2), fee), ch.total_deposited)
    => \A w \in Builds : FinalizeCheck(c, ch, now, w) = "Ok"

\* C33: with the counterparty sending nothing, one participant takes the
\* channel from Open to Closed on a split of their choice: either
\* participant's initiate_channel_close with any split that leaves room for
\* the fee is accepted on the Open channel, finalize_channel_close is
\* accepted once the window has elapsed, and it pays the split that
\* participant submitted last; nothing asks for the other's signature.
C33_UnilateralSplit ==
    [][\A c \in CloseIds :
          /\ AnySplitAccepted(c)
          /\ ElapsedSplitFinalizes(c)
          /\ last'.res = "Ok" /\ last'.op # "tick" => last'.signer = "B"
          /\ DidOk("finalize_channel_close", c)
             => /\ Status(channel'[c]) = "Closed"
                /\ paid'[c] = <<proposals[c].latest[1], proposals[c].latest[2]>>]_vars

\* A deposited 1000 and sent nothing afterwards; B closed the channel on
\* <<0, 1000>> and holds the whole deposit
C33_Witness ==
    /\ Status(channel["c1"]) = "Closed"
    /\ channel["c1"].participant1 = "A" /\ channel["c1"].participant2 = "B"
    /\ paid["c1"] = <<N(0), N(1000)>>
    /\ tokens["B"]["M"] = N(1000) /\ vault["c1"] = N(0)
    /\ last.op = "finalize_channel_close" /\ last.res = "Ok" /\ last.signer = "B"

\* C34: once the channel carries the largest u64 as its nonce, no
\* initiate_channel_close or challenge_channel_close is accepted on it, with
\* whatever nonce, so its split and deadline stay; that split is the one a
\* finalize_channel_close pays, and while the split plus the fee at the
\* registry's rate exceeds total_deposited no finalize_channel_close is
\* accepted.
C34_TopNonceIsFinal ==
    [][\A c \in CloseIds :
          LET ch == channel[c]
              fee == FloorFee(ch.total_deposited,
                              RegistryAt(vault_mint[c]).channel_fee_rate)
          IN
          ch.nonce = U64_MAX
          => /\ \A u \in Users, s \in TopSplits, n \in TopNonces \cup {N(0), N(1)} :
                   /\ initiate_channel_close_check(ch, u, s[1], s[2], n) # "Ok"
                   /\ challenge_channel_close_check(ch, u, s[1], s[2], n, now) # "Ok"
             /\ channel'[c].nonce = U64_MAX
             /\ channel'[c].balance1 = ch.balance1
             /\ channel'[c].balance2 = ch.balance2
             /\ channel'[c].challenge_deadline = ch.challenge_deadline
             /\ DidOk("finalize_channel_close", c)
                => paid'[c] = <<ch.balance1, ch.balance2>>
             /\ Lt(ch.total_deposited, Plus(Plus(ch.balance1, ch.balance2), fee))
                => "Ok" \notin FinalizeResults(c, ch, now)]_vars

\* B's answer to the split <<1000, 0>> that A put at the largest nonce was
\* turned away within the window
C34_Witness ==
    /\ last.op = "challenge_channel_close" /\ last.res = "NewNonceMustBeGreater"
    /\ channel["c1"].nonce = U64_MAX
    /\ proposals["c1"].highest = <<N(1000), N(0), U64_MAX>>
    /\ Status(channel["c1"]) = "Closing" /\ now < channel["c1"].challenge_deadline

\* the split <<1000, 0>> at the largest nonce left no room for the fee of 1%
\* and was paid only after the authority lowered the rate to 0
C34_WitnessRateLowered ==
    /\ last.op = "finalize_channel_close" /\ last.res = "Ok" /\ last.n = N(0)
    /\ channel["c1"].nonce = U64_MAX
    /\ paid["c1"] = <<N(1000), N(0)>>
    /\ payment_channel["M"].channel_fee_rate = 0

\* on a Closing channel whose window has elapsed, a participant's
\* initiate_channel_close at a higher nonce is accepted while
\* challenge_channel_close with the same arguments is refused as expired
LateInitiateAccepted(c) ==
    LET ch == channel[c] IN
    Status(ch) = "Closing" /\ now >= ch.challenge_deadline
    => \A u \in {ch.participant1, ch.participant2}, s \in RaceSplits,
          n \in RaceNonces \cup {Plus(ch.nonce, N(1))} :
          Lt(ch.nonce, n)
          => /\ initiate_channel_close_check(ch, u, s[1], s[2], n) = "Ok"
             /\ challenge_channel_close_check(ch, u, s[1], s[2], n, now)
                    = "ChallengePeriodExpired"

\* C35: initiate_channel_close looks at no clock: after the window of a
\* Closing channel has elapsed and before it is finalized, a participant's
\* initiate_channel_close at a higher nonce still succeeds, where
\* challenge_channel_close with the same arguments at the same clock fails
\* as expired; it replaces the split and sets a new deadline, before which
\* finalize_channel_close fails again.
C35_LateInitiate ==
    [][\A c \in CloseIds :
          /\ LateInitiateAccepted(c)
          /\ DidOk("initiate_channel_close", c) /\ Status(channel[c]) = "Closing"
               /\ now >= channel[c].challenge_deadline
             => /\ Carries(channel'[c], <<last'.a1, last'.a2>>, last'.n)
                /\ channel'[c].challenge_deadline = now + CHALLENGE_PERIOD
                /\ \A w \in Builds :
                      /\ FinalizeCheck(c, channel[c], now, w) = "Ok"
                      /\ FinalizeCheck(c, channel[c], now, w)'
                             = "ChallengePeriodNotEnded"]_vars

\* the close initiated at clock 0 could be finalized from 86400 on; at 86400
\* B initiated it again with <<400, 600>> and the finalize that followed was
\* refused
C35_Witness ==
    /\ last.op = "finalize_channel_close" /\ last.res = "ChallengePeriodNotEnded"
    /\ channel["c1"].nonce = N(2) /\ initiated_at["c1"] = CHALLENGE_PERIOD
    /\ now = CHALLENGE_PERIOD
    /\ Carries(channel["c1"], <<N(400), N(600)>>, N(2))
    /\ channel["c1"].challenge_deadline = 2 * CHALLENGE_PERIOD

\* every challenge_channel_close on ch at clock t fails as expired
ChallengeTimedOut(ch, t) ==
    \A u \in Users, s \in Splits, n \in Nonces \cup {N(MaxNonce + 1)} :
        challenge_channel_close_check(ch, u, s[1], s[2], n, t) = "ChallengePeriodExpired"

\* every finalize_channel_close on ch at clock t fails as too early
FinalizeTooEarly(c, ch, t) ==
    \A w \in Builds : FinalizeCheck(c, ch, t, w) = "ChallengePeriodNotEnded"

\* some challenge_channel_close and some finalize_channel_close would both
\* be accepted on ch at clock t
BothAccepted(c, ch, t) ==
    /\ \E u \in Users, s \in Splits, n \in Nonces \cup {N(MaxNonce + 1)} :
          challenge_channel_close_check(ch, u, s[1], s[2], n, t) = "Ok"
    /\ "Ok" \in FinalizeResults(c, ch, t)

\* C36: on a Closing channel, at every clock, either challenge_channel_close
\* is past its time (now >= challenge_deadline) or finalize_channel_close is
\* before its time (now < challenge_deadline), never both and never
\* neither, so no state accepts both; and once the deadline is reached it
\* stays reached and no challenge_channel_close succeeds, until an
\* initiate_channel_close succeeds.
C36_WindowsDisjoint ==
    /\ [](\A c \in CloseIds :
            LET ch == channel[c] IN
            Status(ch) = "Closing"
            => \A t \in {now, ch.challenge_deadline - 1, ch.challenge_deadline} :
                  /\ ChallengeTimedOut(ch, t) <=> ~FinalizeTooEarly(c, ch, t)
                  /\ ChallengeTimedOut(ch, t) <=> t >= ch.challenge_deadline
                  /\ ~BothAccepted(c, ch, t))
    /\ [][\A c \in CloseIds :
             /\ Status(channel[c]) = "Closing"
             /\ now >= channel[c].challenge_deadline
             /\ ~DidOk("initiate_channel_close", c)
             => /\ ~DidOk("challenge_channel_close", c)
                /\ Status(channel'[c]) = "Closing"
                   => now' >= channel'[c].challenge_deadline]_vars

\* at the very clock of the deadline a challenge was refused as expired on
\* a channel that finalize_channel_close would accept
C36_Witness ==
    /\ last.op = "challenge_channel_close" /\ last.res = "ChallengePeriodExpired"
    /\ Status(channel["c1"]) = "Closing"
    /\ now = channel["c1"].challenge_deadline
    /\ FinalizeCheck("c1", channel["c1"], now, FALSE) = "Ok"

\* the channel c is Closing, its deadline is reached and its deposit covers
\* its split and the fee at the rate of the registry of its mint
ReadyToFinalize(c) ==
    /\ Status(channel[c]) = "Closing"
    /\ now >= channel[c].challenge_deadline
    /\ RegistryAt(vault_mint[c]).exists
    /\ Le(SplitAndFee(channel[c], RegistryAt(vault_mint[c]).channel_fee_rate),
          channel[c].total_deposited)

\* the token accounts of mint m that exist and whose authority is u
AccountsOf(u, m) ==
    {a \in AccountKinds \X {u} \X {m} : TokenAccountAt(a).exists}

\* the errors of finalize_channel_close that come from the accounts the
\* caller handed in: an account that does not exist, a destination of
\* another authority or of another mint than the registry's, a registry
\* at whose rate the fee overflows or is not covered by the deposit, and a
\* payout into another mint
RefusedForAccounts ==
    {"AccountNotInitialized", "ConstraintTokenOwner", "ConstraintTokenMint",
     "MathOverflow", "Panic", "InsufficientFunds", "TokenMintMismatch"}

\* C37: finalize_channel_close checks nothing about its caller: on a
\* Closing channel whose deadline is reached and whose deposit covers the
\* split and the fee, a finalize_channel_close handed the registry of the
\* channel's mint and token accounts of the two participants succeeds,
\* whoever sends it, and none is refused for anything but the accounts
\* handed in; a successful one pays balance1 to participant1 and balance2 to
\* participant2 and nothing to anyone else, the caller included.
C37_AnyCallerFinalizes ==
    [][\A c \in CloseIds :
          LET ch == channel[c] IN
          /\ ReadyToFinalize(c)
             => /\ \A to1 \in AccountsOf(ch.participant1, vault_mint[c]),
                      to2 \in AccountsOf(ch.participant2, vault_mint[c]), w \in Builds :
                      finalize_channel_close_check(
                          ch, RegistryAt(vault_mint[c]), VaultAt(c), TokenAccountAt(to1),
                          TokenAccountAt(to2), now, w) = "Ok"
                /\ Did("finalize_channel_close", c)
                   => last'.res \in {"Ok"} \cup RefusedForAccounts
          /\ Did("finalize_channel_close", c)
             => \E g \in MintSettlements, w \in Builds :
                   last'.res = finalize_channel_close_check(
                                   ch, RegistryAt(g[1]), VaultAt(c), TokenAccountAt(g[2]),
                                   TokenAccountAt(g[3]), now, w)
          /\ DidOk("finalize_channel_close", c)
             => /\ last'.signer \in Users
                /\ last'.a1 = ch.balance1 /\ last'.a2 = ch.balance2
                /\ PaysParticipants(c, ch, ch.balance1, ch.balance2)
                /\ vault'[c] = Minus(Minus(vault[c], ch.balance1), ch.balance2)]_vars

\* a caller that is neither a participant of the channel nor the
\* authority of the registry finalized it, and holds nothing afterwards
C37_Witness ==
    /\ last.op = "finalize_channel_close" /\ last.res = "Ok"
    /\ last.signer = "C"
    /\ last.signer \notin {channel["c1"].participant1, channel["c1"].participant2,
                           payment_channel[last.mint].authority}
    /\ Lt(N(0), last.a1) /\ Lt(N(0), last.a2)
    /\ Holdings(tokens, token_account, "C", "M") = N(0)
    /\ Status(channel["c1"]) = "Closed"

\* C38: an Open channel has nonce 0, balance1 = total_deposited and
\* balance2 = 0, in every reachable state; and a step that changes the
\* nonce, balance1 or balance2 of an existing channel leaves that channel
\* Closing.
C38_OpenIsPristine ==
    /\ [](\A c \in ChannelIds :
            Status(channel[c]) = "Open"
            => /\ channel[c].nonce = N(0)
               /\ channel[c].balance1 = channel[c].total_deposited
               /\ channel[c].balance2 = N(0))
    /\ [][\A c \in ChannelIds :
             /\ channel[c].exists
             /\ <<channel'[c].balance1, channel'[c].balance2, channel'[c].nonce>>
                  # <<channel[c].balance1, channel[c].balance2, channel[c].nonce>>
             => /\ Status(channel[c]) \in {"Open", "Closing"}
                /\ Status(channel'[c]) = "Closing"
                /\ \/ DidOk("initiate_channel_close", c)
                   \/ DidOk("challenge_channel_close", c)]_vars

\* a funded channel is still Open after a challenge_channel_close and time
\* passing: it was refused, and the channel is as it was opened
C38_Witness ==
    /\ Status(channel["c1"]) = "Open"
    /\ Lt(N(0), channel["c1"].total_deposited)
    /\ channel["c1"].balance1 = channel["c1"].total_deposited
    /\ last.op = "challenge_channel_close" /\ last.res = "NoActiveChallengePeriod"
    /\ now > 0

====
